---- MODULE Spec2Model ----
(***************************************************************************)
(* Scrape-The-Verse: the PostgreSQL loader (src/src/load/load.py) and the  *)
(* lyrics/metadata joiner (src/src/processing/join_lyrics_and_metadata.py).*)
(*                                                                         *)
(* Spec      the loader: main() run repeatedly against one store, with     *)
(*           process termination and re-scraped input files between runs.  *)
(***************************************************************************)
EXTENDS Integers, Sequences, FiniteSets, TLC

(***************************************************************************)
(* Bounds of the model.                                                    *)
(***************************************************************************)
MaxRuns == 2        \* loader runs started against the same store
MaxPrompts == 1     \* artist names typed at the prompt in one run

(***************************************************************************)
(* Values.  A CSV cell read by pandas is a string or NaN (empty cell); a   *)
(* value handed to the database driver is a string or NULL (Python None).  *)
(* Ids and track numbers are Python ints and are kept as integers.         *)
(***************************************************************************)
NaN == "NaN"
NULL == "NULL"

Absent == "ABSENT"      \* the CSV has no such column

\* load.py:34-51.  pd.isna holds of NaN and of None; the NumPy -> native
\* conversions keep the value.
to_python_type(val) == IF val \in {NaN, NULL} THEN NULL ELSE val

\* row.get(col): None when the column is absent
RowGet(val) == IF val = Absent THEN NULL ELSE val

\* row.get(col, "")
RowGetOr(val, default) == IF val = Absent THEN default ELSE val

\* DataFrame.fillna("") on one cell
FillNa(val) == IF val = NaN THEN "" ELSE val

\* str(x) of a cell, as parse_artist_csv applies it: str(nan) is "nan".
\* The cells of the model carry no surrounding blanks (strip() keeps them).
PyStr(val) == IF val = NaN THEN "nan" ELSE val

\* ", ".join(filter(None, parts)) for the two genre cells (load.py:197-200)
JoinGenres(a, b) ==
    IF a = "" THEN b
    ELSE IF b = "" THEN a
    ELSE a \o ", " \o b

(***************************************************************************)
(* Characters and strings that the code inspects (folder names, titles)    *)
(* are sequences of one-character strings.                                 *)
(***************************************************************************)
Upper == <<"A","B","C","D","E","F","G","H","I","J","K","L","M",
           "N","O","P","Q","R","S","T","U","V","W","X","Y","Z">>
Lower == <<"a","b","c","d","e","f","g","h","i","j","k","l","m",
           "n","o","p","q","r","s","t","u","v","w","x","y","z">>

\* str.lower() on one character
LowerChar(c) ==
    IF \E i \in 1..Len(Upper) : Upper[i] = c
    THEN Lower[CHOOSE i \in 1..Len(Upper) : Upper[i] = c]
    ELSE c

\* str.lower()
ToLower(s) == [i \in 1..Len(s) |-> LowerChar(s[i])]

\* Python's `sub in s` for strings
Contains(s, sub) ==
    \E i \in 0..(Len(s) - Len(sub)) :
        \A j \in 1..Len(sub) : s[i + j] = sub[j]

SeqRange(q) == {q[i] : i \in 1..Len(q)}

SetMin(S) == CHOOSE x \in S : \A y \in S : x <= y

\* load.py:54-64
excluded_keywords == { <<"d","e","l","u","x","e">>, <<"l","i","v","e">> }

is_valid_album_name(name) ==
    ~ \E kw \in excluded_keywords : Contains(ToLower(name), kw)

(***************************************************************************)
(* Title normalization (join_lyrics_and_metadata.py:21-37).  Characters    *)
(* outside ASCII are written by name: RSQUO and LSQUO are the curly single *)
(* quotes, EMDASH the em dash, NBSP the no-break space, E_ACUTE the letter *)
(* e with acute accent and COMB_ACUTE the combining acute accent.          *)
(***************************************************************************)
Letters == SeqRange(Upper) \cup SeqRange(Lower)
Digits == {"0", "1", "2", "3", "4", "5", "6", "7", "8", "9"}

\* \s of the regular expressions and the blanks of str.strip()
IsSpace(c) == c \in {" ", "NBSP"}

\* \w of the regular expressions
IsWord(c) == c \in Letters \cup Digits \cup {"_"}

\* unicodedata.normalize("NFKD", c) for one character
NFKD(c) ==
    CASE c = "E_ACUTE" -> <<"e", "COMB_ACUTE">>
      [] c = "NBSP" -> <<" ">>
      [] OTHER -> <<c>>

\* the replacements table of normalize_unicode, for one character
Replacement(c) ==
    CASE c \in {"RSQUO", "LSQUO"} -> "'"
      [] c \in {"LDQUO", "RDQUO"} -> "DQUOTE"
      [] c \in {"ENDASH", "EMDASH"} -> "-"
      [] c = "NBSP" -> " "
      [] OTHER -> c

RECURSIVE FlatMap(_, _)
FlatMap(s, i) == IF i > Len(s) THEN << >> ELSE NFKD(s[i]) \o FlatMap(s, i + 1)

\* str.strip()
Strip(s) ==
    LET keep == {i \in 1..Len(s) : ~IsSpace(s[i])}
    IN  IF keep = {} THEN << >>
        ELSE SubSeq(s, SetMin(keep), CHOOSE i \in keep : \A k \in keep : k <= i)

\* join_lyrics_and_metadata.py:21-29
normalize_unicode(text) ==
    LET d == FlatMap(text, 1)
    IN  Strip([i \in 1..Len(d) |-> Replacement(d[i])])

\* the literal w (lower case) matches s at position i under re.IGNORECASE
MatchAt(s, i, w) ==
    /\ i + Len(w) - 1 <= Len(s)
    /\ \A k \in 1..Len(w) : LowerChar(s[i + k - 1]) = w[k]

WordVersion == <<"v","e","r","s","i","o","n">>
WordFeat == <<"f","e","a","t",".">>
NoiseWords == { <<"e","x","p","l","i","c","i","t">>,
                <<"r","e","m","i","x">>,
                <<"p","o","p"," ","m","i","x">>,
                <<"r","a","d","i","o"," ","e","d","i","t">>,
                <<"s","l","o","w"," ","v","e","r","s","i","o","n">>,
                <<"v","a","u","l","t">> }

\* text.replace('[', '(').replace(']', ')')   (line 33)
UnifyBrackets(s) ==
    [i \in 1..Len(s) |-> IF s[i] = "[" THEN "(" ELSE IF s[i] = "]" THEN ")" ELSE s[i]]

\* re.sub(r'\s*\((.*?version.*?)\)', r' \1', text, flags=re.IGNORECASE)  (line 34).
\* The leftmost match opens at the first "(" that has "version" after it and
\* a ")" after that; both .*? are lazy, so the group runs to the first
\* "version" and then to the first ")"; \s* takes the blanks before the "(".
RECURSIVE VersionSub(_)
VersionSub(s) ==
    LET opens == {p \in 1..Len(s) : s[p] = "("}
    IN  IF opens = {} THEN s
        ELSE LET p == SetMin(opens)
                 vs == {q \in (p + 1)..Len(s) : MatchAt(s, q, WordVersion)}
             IN  IF vs = {} THEN s
                 ELSE LET q == SetMin(vs)
                          cs == {r \in (q + Len(WordVersion))..Len(s) : s[r] = ")"}
                      IN  IF cs = {} THEN s
                          ELSE LET r == SetMin(cs)
                                   ws == SetMin({i \in 1..p :
                                            \A k \in i..(p - 1) : IsSpace(s[k])})
                               IN  SubSeq(s, 1, ws - 1) \o <<" ">>
                                     \o SubSeq(s, p + 1, r - 1)
                                     \o VersionSub(SubSeq(s, r + 1, Len(s)))

\* re.sub(r'(feat\..*|explicit|remix|pop mix|radio edit|slow version|vault)',
\*        '', text, flags=re.IGNORECASE)   (line 35), scanning from position i
RECURSIVE NoiseSub(_, _)
NoiseSub(s, i) ==
    IF i > Len(s) THEN << >>
    ELSE IF MatchAt(s, i, WordFeat) THEN << >>
    ELSE IF \E w \in NoiseWords : MatchAt(s, i, w)
    THEN NoiseSub(s, i + Len(CHOOSE w \in NoiseWords : MatchAt(s, i, w)))
    ELSE <<s[i]>> \o NoiseSub(s, i + 1)

\* re.sub(r'[^\w\s\(\)]', '', text)   (line 36)
RECURSIVE PunctSub(_, _)
PunctSub(s, i) ==
    IF i > Len(s) THEN << >>
    ELSE IF IsWord(s[i]) \/ IsSpace(s[i]) \/ s[i] \in {"(", ")"}
    THEN <<s[i]>> \o PunctSub(s, i + 1)
    ELSE PunctSub(s, i + 1)

\* join_lyrics_and_metadata.py:31-37
normalize_for_match(text) ==
    ToLower(Strip(PunctSub(NoiseSub(VersionSub(UnifyBrackets(normalize_unicode(text))), 1), 1)))

(***************************************************************************)
(* difflib.get_close_matches, as match_lyrics and the folder lookups call  *)
(* it (n=1, no junk; autojunk needs 200 characters).                       *)
(***************************************************************************)
\* the characters of the model in code point order (Python compares strings
\* by code point)
CodeOrder ==
    <<" ", "DQUOTE", "'", "(", ")", "-", ".">>
    \o <<"0", "1", "2", "3", "4", "5", "6", "7", "8", "9">>
    \o Upper \o <<"[", "]", "_">> \o Lower
    \o <<"NBSP", "E_ACUTE", "COMB_ACUTE", "ENDASH", "EMDASH",
          "LSQUO", "RSQUO", "LDQUO", "RDQUO">>

Ord(c) == CHOOSE i \in 1..Len(CodeOrder) : CodeOrder[i] = c

\* a < b for Python strings
StrLess(a, b) ==
    \E k \in 1..(Len(a) + 1) :
        /\ k <= Len(b)
        /\ \A i \in 1..(k - 1) : a[i] = b[i]
        /\ (k = Len(a) + 1 \/ Ord(a[k]) < Ord(b[k]))

\* the length of the common run of a from i and b from j, inside a[..ahi], b[..bhi]
RECURSIVE RunLen(_, _, _, _, _, _)
RunLen(a, b, i, j, ahi, bhi) ==
    IF i > ahi \/ j > bhi THEN 0
    ELSE IF a[i] # b[j] THEN 0
    ELSE 1 + RunLen(a, b, i + 1, j + 1, ahi, bhi)

SetMax(S) == CHOOSE x \in S : \A y \in S : y <= x

\* the common runs of a[alo..ahi] and b[blo..bhi], by start positions
RunTable(a, b, alo, ahi, blo, bhi) ==
    [ij \in (alo..ahi) \X (blo..bhi) |-> RunLen(a, b, ij[1], ij[2], ahi, bhi)]

\* the block of that size that starts at i in a: the earliest in b
BlockAt(runs, size, i) ==
    <<i, SetMin({ij[2] : ij \in {x \in DOMAIN runs : runs[x] = size /\ x[1] = i}}), size>>

\* the block of that size: the earliest in a
BlockOfSize(runs, size, alo, blo) ==
    IF size = 0 THEN <<alo, blo, 0>>
    ELSE BlockAt(runs, size, SetMin({ij[1] : ij \in {x \in DOMAIN runs : runs[x] = size}}))

LongestBlock(runs, alo, blo) ==
    IF DOMAIN runs = {} THEN <<alo, blo, 0>>
    ELSE BlockOfSize(runs, SetMax({runs[ij] : ij \in DOMAIN runs}), alo, blo)

\* SequenceMatcher.find_longest_match on a[alo..ahi], b[blo..bhi]: the longest
\* common block, the earliest in a, then the earliest in b; <<i, j, size>>
find_longest_match(a, b, alo, ahi, blo, bhi) ==
    LongestBlock(RunTable(a, b, alo, ahi, blo, bhi), alo, blo)

\* the sum of the sizes of SequenceMatcher.get_matching_blocks: the longest
\* block m, then the blocks to its left and to its right
RECURSIVE MatchedChars(_, _, _, _, _, _)
RECURSIVE MatchedAround(_, _, _, _, _, _, _)
MatchedAround(a, b, alo, ahi, blo, bhi, m) ==
    IF m[3] = 0 THEN 0
    ELSE m[3] + MatchedChars(a, b, alo, m[1] - 1, blo, m[2] - 1)
              + MatchedChars(a, b, m[1] + m[3], ahi, m[2] + m[3], bhi)

MatchedChars(a, b, alo, ahi, blo, bhi) ==
    MatchedAround(a, b, alo, ahi, blo, bhi, find_longest_match(a, b, alo, ahi, blo, bhi))

\* SequenceMatcher(a=x, b=word).ratio() as the fraction <<2*M, T>>; 1.0 when
\* both are empty
Ratio(x, word) ==
    IF Len(x) + Len(word) = 0 THEN <<1, 1>>
    ELSE <<2 * MatchedChars(x, word, 1, Len(x), 1, Len(word)), Len(x) + Len(word)>>

\* r >= pct / 100
RatioAtLeast(r, pct) == r[1] * 100 >= pct * r[2]

\* (rx, x) < (ry, y) for the tuples heapq.nlargest compares
TupleLess(rx, x, ry, y) ==
    \/ rx[1] * ry[2] < ry[1] * rx[2]
    \/ rx[1] * ry[2] = ry[1] * rx[2] /\ StrLess(x, y)

ScoredLess(x, y, word) == TupleLess(Ratio(x, word), x, Ratio(y, word), y)

\* a selection that returns the candidate with the lowest score
Largest_lowest(result, word) ==
    IF result = {} THEN << >>
    ELSE << CHOOSE x \in result : \A y \in result : ~ScoredLess(y, x, word) >>

\* heapq.nlargest(1, result): the list of the best candidate
Largest(result, word) ==
    IF result = {} THEN << >>
    ELSE << CHOOSE x \in result : \A y \in result : ~ScoredLess(x, y, word) >>

\* difflib.get_close_matches(word, possibilities, n=1, cutoff=pct/100): the
\* list holding the best candidate, empty when none reaches the cutoff
get_close_matches(word, possibilities, pct) ==
    Largest({x \in SeqRange(possibilities) : RatioAtLeast(Ratio(x, word), pct)}, word)

(***************************************************************************)
(* The lyric map and the matcher (join_lyrics_and_metadata.py:89-125).     *)
(* A lyrics_map is the dict in insertion order: a sequence of key/text     *)
(* entries with distinct keys.                                             *)
(***************************************************************************)
LyricsCutoff == 60      \* cutoff=0.6, in hundredths
PrefixLen == 10         \* simplified[:10]

MapKeys(lyrics_map) == [i \in 1..Len(lyrics_map) |-> lyrics_map[i].key]
MapHas(lyrics_map, key) == \E i \in 1..Len(lyrics_map) : lyrics_map[i].key = key
MapGet(lyrics_map, key) ==
    lyrics_map[CHOOSE i \in 1..Len(lyrics_map) : lyrics_map[i].key = key].text

\* f.read().strip() on the lyric texts of the model: a blank file gives ""
StripText(content) == IF content \in {" ", ""} THEN "" ELSE content

\* a loop body that lets a later file replace the text of a mapped key
AddLyrics_keep_last(lyrics_map, key, content) ==
    IF MapHas(lyrics_map, key)
    THEN [i \in 1..Len(lyrics_map) |->
            IF lyrics_map[i].key = key
            THEN [key |-> key, text |-> StripText(content)]
            ELSE lyrics_map[i]]
    ELSE Append(lyrics_map, [key |-> key, text |-> StripText(content)])

\* the body of that loop (lines 94-100): a key already mapped is skipped
AddLyrics(lyrics_map, key, content) ==
    IF MapHas(lyrics_map, key) THEN lyrics_map
    ELSE Append(lyrics_map, [key |-> key, text |-> StripText(content)])

\* the loop of load_combined_lyrics_map over folder.glob("*.txt") (lines 93-100),
\* files in the order the folder lists them
RECURSIVE combine_lyrics(_, _, _)
combine_lyrics(txt_files, i, lyrics_map) ==
    IF i > Len(txt_files) THEN lyrics_map
    ELSE combine_lyrics(txt_files, i + 1,
             AddLyrics(lyrics_map, normalize_for_match(txt_files[i].stem),
                       txt_files[i].content))

\* str.startswith
StartsWith(s, prefix) ==
    /\ Len(prefix) <= Len(s)
    /\ \A i \in 1..Len(prefix) : s[i] = prefix[i]

\* the lines appended to match_log (lines 110, 115, 120, 123)
MatchLine(song_title, key, tier) == <<song_title, " --> ", key, " (", tier, ")">>
NoMatchLine(song_title) == <<song_title, " --> ", "CROSS_MARK", " No match">>

\* the result of a tier: the text returned and the log after the call
Matched(song_title, lyrics_map, match_log, key, tier) ==
    [text |-> MapGet(lyrics_map, key),
     log |-> Append(match_log, MatchLine(song_title, key, tier))]

\* simplified[:10]
Head10(simplified) ==
    SubSeq(simplified, 1,
           IF Len(simplified) < PrefixLen THEN Len(simplified) ELSE PrefixLen)

\* the keys the loop of lines 113-116 accepts, by position in the map
PrefixKeys(lyrics_map, head) ==
    {i \in 1..Len(lyrics_map) : StartsWith(lyrics_map[i].key, head)}

\* a matcher that logs nothing when no tier succeeds
FuzzyTier_miss_unlogged(song_title, lyrics_map, match_log, close) ==
    IF close # << >>
    THEN Matched(song_title, lyrics_map, match_log, close[1], "fuzzy")
    ELSE [text |-> "", log |-> match_log]

\* lines 118-125, close being what get_close_matches returned
FuzzyTier(song_title, lyrics_map, match_log, close) ==
    IF close # << >>
    THEN Matched(song_title, lyrics_map, match_log, close[1], "fuzzy")
    ELSE [text |-> "", log |-> Append(match_log, NoMatchLine(song_title))]

\* a prefix tier that returns the last accepted key of the map
PrefixTier_last_key(song_title, simplified, lyrics_map, match_log, pre) ==
    IF pre # {}
    THEN Matched(song_title, lyrics_map, match_log, lyrics_map[SetMax(pre)].key, "prefix")
    ELSE FuzzyTier(song_title, lyrics_map, match_log,
                   get_close_matches(simplified, MapKeys(lyrics_map), LyricsCutoff))

\* lines 113-125, pre being the keys the prefix loop accepts
PrefixTier(song_title, simplified, lyrics_map, match_log, pre) ==
    IF pre # {}
    THEN Matched(song_title, lyrics_map, match_log, lyrics_map[SetMin(pre)].key, "prefix")
    ELSE FuzzyTier(song_title, lyrics_map, match_log,
                   get_close_matches(simplified, MapKeys(lyrics_map), LyricsCutoff))

\* lines 109-125, simplified being the normalized title
ExactTier(song_title, simplified, lyrics_map, match_log) ==
    IF MapHas(lyrics_map, simplified)
    THEN Matched(song_title, lyrics_map, match_log, simplified, "exact")
    ELSE PrefixTier(song_title, simplified, lyrics_map, match_log,
                    PrefixKeys(lyrics_map, Head10(simplified)))

\* a matcher that tries the prefix tier before the exact tier
match_lyrics_prefix_first(song_title, lyrics_map, match_log) ==
    PrefixTier(song_title, normalize_for_match(song_title), lyrics_map, match_log,
               PrefixKeys(lyrics_map, Head10(normalize_for_match(song_title))))

\* join_lyrics_and_metadata.py:104-125: the text returned and the log after
\* the call
match_lyrics(song_title, lyrics_map, match_log) ==
    ExactTier(song_title, normalize_for_match(song_title), lyrics_map, match_log)

(***************************************************************************)
(* Titles given to normalize_for_match: a bare title followed by up to two  *)
(* of the tags found on catalogue titles and lyric file names.             *)
(***************************************************************************)
TitleSong == <<"S","o","n","g">>
TitleBlankSpace == <<"B","l","a","n","k"," ","S","p","a","c","e">>
TitleCafe == <<"C","a","f","E_ACUTE","RSQUO","s">>

SufFeat == <<" ","(","f","e","a","t","."," ","X",")">>
SufFeatBare == <<" ","f","e","a","t","."," ","X">>
SufExplicitBr == <<" ","[","E","x","p","l","i","c","i","t","]">>
SufExplicit == <<" ","(","E","x","p","l","i","c","i","t",")">>
SufRemix == <<" ","(","R","e","m","i","x",")">>
SufRemixBr == <<" ","[","R","e","m","i","x","]">>
SufRadioEdit == <<" ","(","R","a","d","i","o"," ","E","d","i","t",")">>
SufPopMix == <<" ","(","P","o","p"," ","M","i","x",")">>
SufSlowVersion == <<" ","(","S","l","o","w"," ","V","e","r","s","i","o","n",")">>
SufVault == <<" ","(","F","r","o","m"," ","T","h","e"," ","V","a","u","l","t",")">>
SufTaylors == <<" ","(","T","a","y","l","o","r","RSQUO","s"," ","V","e","r","s","i","o","n",")">>
SufLive == <<" ","(","L","i","v","e"," ","V","e","r","s","i","o","n",")">>
SufDashRemix == <<" ","-"," ","R","e","m","i","x">>

TitleSongs == <<"S","o","n","g","s">>
TitleSang == <<"S","a","n","g">>
TitleSing == <<"S","i","n","g">>
TitleBlankSpaces == <<"B","l","a","n","k"," ","S","p","a","c","e","s">>
TitleRemix == <<"R","e","m","i","x">>
TitleZebra == <<"Z","e","b","r","a">>

Bases == {TitleSong, TitleBlankSpace, TitleCafe}

\* the feature tag and the noise markers, in parentheses or brackets
NoiseSuffixes == {SufFeat, SufExplicitBr, SufExplicit, SufRemix, SufRemixBr,
                  SufRadioEdit, SufPopMix, SufSlowVersion, SufVault}

Suffixes == NoiseSuffixes \cup {SufFeatBare, SufTaylors, SufLive, SufDashRemix, << >>}

(***************************************************************************)
(* Input files under processed/.  A merged-metadata CSV is its first row;  *)
(* a *_final.csv is the sequence of its rows.                              *)
(***************************************************************************)
ArtistCsv(name, dob, pop) ==
    [Name |-> name, BirthName |-> NaN, DateOfBirth |-> dob,
     PlaceOfBirth |-> "West Reading", CountryOfCitizenship |-> "US",
     WorkPeriodStart |-> "2004", GenresWikidata |-> "pop", GenresSpotify |-> NaN,
     Instruments |-> "guitar", VoiceType |-> NaN, Popularity |-> pop,
     Followers |-> "100", ImageURL |-> Absent]

TrackCsvRow(song, album, date, pop, lyr) ==
    [SongName |-> song, SongPopularity |-> pop, Explicit |-> "False",
     DurationMs |-> "200000", AlbumName |-> album, ReleaseDateAlbum |-> date,
     AlbumPopularity |-> pop, ImageURL |-> Absent, Lyrics |-> lyr]

File(name) == [name |-> name, is_dir |-> FALSE, finals |-> << >>]
Dir(name, finals) == [name |-> name, is_dir |-> TRUE, finals |-> finals]

NoArtist == [has_meta |-> FALSE, meta |-> ArtistCsv(NaN, NaN, NaN), entries |-> << >>]

MetaFile == File(<<"m","e","t","a",".","c","s","v">>)
DirA1 == <<"A","1">>
DirA2 == <<"A","2">>
DirB1 == <<"B","1">>
DirB2 == <<"B","2">>
DirLive == <<"B","1"," ","(","L","i","v","e",")">>

\* the files as first scraped
FS1 ==
    [X |-> [has_meta |-> TRUE, meta |-> ArtistCsv("X", NaN, "50"),
            entries |-> <<
               Dir(DirA1, << << TrackCsvRow("Intro", "A1", "2001", "50", "a1 intro"),
                                TrackCsvRow("Song", "A1", "2001", "50", NaN) >> >>),
               MetaFile,
               Dir(DirA2, << << TrackCsvRow("Intro", "A2", "2002", "50", "a2 intro") >> >>) >>],
     Y |-> [has_meta |-> TRUE, meta |-> ArtistCsv("Y", "1990", "50"),
            entries |-> <<
               Dir(DirLive, << << TrackCsvRow("Intro", "B1 (Live)", "2011", "50", "live") >> >>),
               Dir(DirB1, << << TrackCsvRow("Intro", "B1", "2010", "50", "b1 intro") >> >>) >>],
     Z |-> NoArtist]

\* the same artists and albums scraped again: other popularity values, other
\* lyric texts, folders listed in another order, and a new album of Y whose
\* release date cell is empty
FS2 ==
    [X |-> [has_meta |-> TRUE, meta |-> ArtistCsv("X", NaN, "60"),
            entries |-> <<
               Dir(DirA2, << << TrackCsvRow("Intro", "A2", "2002", "60", "a2 intro v2") >> >>),
               Dir(DirA1, << << TrackCsvRow("Intro", "A1", "2001", "60", "a1 intro v2"),
                                TrackCsvRow("Song", "A1", "2001", "60", "a1 song") >> >>),
               MetaFile >>],
     Y |-> [has_meta |-> TRUE, meta |-> ArtistCsv("Y", "1990", "60"),
            entries |-> <<
               Dir(DirB1, << << TrackCsvRow("Intro", "B1", "2010", "60", "b1 intro v2") >> >>),
               Dir(DirB2, << << TrackCsvRow("Intro", "B2", NaN, "60", "b2 intro") >> >>) >>],
     Z |-> NoArtist]

FsConfigs == {FS1, FS2}

\* an artist folder with metadata, a live album (excluded by name) and an
\* album folder that holds no *_final.csv
NoAlbumsArtist ==
    [has_meta |-> TRUE, meta |-> ArtistCsv("Z", "1985", "50"),
     entries |-> <<
        Dir(DirLive, << << TrackCsvRow("Intro", "B1 (Live)", "2011", "50", "live") >> >>),
        MetaFile,
        Dir(DirB2, << >>) >>]

\* one artist whose metadata the pipeline first wrote with one birth date
\* and later with another; the album has two tracks of the same name
FS3 ==
    [X |-> NoArtist,
     Y |-> [has_meta |-> TRUE, meta |-> ArtistCsv("Y", "1980", "50"),
            entries |-> <<
               Dir(DirB1, << << TrackCsvRow("Intro", "B1", "2010", "50", "b1 intro"),
                                TrackCsvRow("Song", "B1", "2010", "50", "b1 song"),
                                TrackCsvRow("Intro", "B1", "2010", "50", "b1 reprise") >> >>) >>],
     Z |-> NoAlbumsArtist]

FS4 ==
    [X |-> NoArtist,
     Y |-> [has_meta |-> TRUE, meta |-> ArtistCsv("Y", "1990", "50"),
            entries |-> <<
               Dir(DirB1, << << TrackCsvRow("Intro", "B1", "2010", "50", "b1 intro") >> >>) >>],
     Z |-> NoAlbumsArtist]

\* the album scraped again with a new first track, the birth date as
\* in FS4
FS5 ==
    [X |-> NoArtist,
     Y |-> [has_meta |-> TRUE, meta |-> ArtistCsv("Y", "1990", "50"),
            entries |-> <<
               Dir(DirB1, << << TrackCsvRow("Outro", "B1", "2010", "50", "b1 outro"),
                                TrackCsvRow("Intro", "B1", "2010", "50", "b1 intro") >> >>) >>],
     Z |-> NoAlbumsArtist]

\* the versions of the files that a later pipeline run puts in place of f
FsLater(f) ==
    IF f = FS1 THEN {FS2}
    ELSE IF f = FS3 THEN {FS4}
    ELSE IF f = FS4 THEN {FS5}
    ELSE {}

\* the loader runs explored on the files f: one more on the small trees
MaxRunsSmall == 3
RunLimit(f) == IF f \in {FS3, FS4, FS5} THEN MaxRunsSmall ELSE MaxRuns

ArtistNames == {"X", "Y", "Z"}

(***************************************************************************)
(* CSV parsers                                                             *)
(***************************************************************************)
\* load.py:174-207
parse_artist_csv(row) ==
    [name |-> RowGet(row.Name),
     birth_name |-> RowGet(row.BirthName),
     birth_date |-> RowGet(row.DateOfBirth),
     birth_place |-> RowGet(row.PlaceOfBirth),
     country |-> PyStr(RowGetOr(row.CountryOfCitizenship, "")),
     active_years |-> RowGet(row.WorkPeriodStart),
     genres |-> JoinGenres(PyStr(RowGetOr(row.GenresWikidata, "")),
                           PyStr(RowGetOr(row.GenresSpotify, ""))),
     instruments |-> RowGet(row.Instruments),
     vocal_type |-> RowGet(row.VoiceType),
     popularity |-> RowGet(row.Popularity),
     followers |-> RowGet(row.Followers),
     image_url |-> RowGet(row.ImageURL)]

\* load.py:223-232; defined for a CSV with at least one row (df.iloc[0])
parse_album_data(csv) ==
    [name |-> FillNa(csv[1].AlbumName),
     release_date |-> FillNa(csv[1].ReleaseDateAlbum),
     popularity |-> FillNa(csv[1].AlbumPopularity),
     image_url |-> RowGetOr(FillNa(csv[1].ImageURL), "")]

\* load.py:234-242
parse_tracks(csv) ==
    [i \in 1..Len(csv) |->
        [name |-> FillNa(csv[i].SongName),
         track_number |-> i,
         duration_ms |-> FillNa(csv[i].DurationMs),
         explicit |-> FillNa(csv[i].Explicit),
         popularity |-> FillNa(csv[i].SongPopularity),
         lyrics |-> RowGetOr(FillNa(csv[i].Lyrics), "")]]

(***************************************************************************)
(* The store: the four core tables of create_tables (load.py:88-145).      *)
(* db is the committed store, tx what the loader's connection sees (db     *)
(* plus its uncommitted statements), seq the SERIAL sequences, which no    *)
(* rollback restores; deleted holds the rows that the last DELETE of an    *)
(* artist removed.  normState, matchState and joinState belong to the      *)
(* specifications of normalize_for_match, match_lyrics and join_album.     *)
(***************************************************************************)
VARIABLES fs, db, tx, seq,
          pc, runs, prompts, artist, artist_id, entries, files,
          album_data, tracks, album_id, track_ids, li, log_file,
          entered, prevRun, commits, deleted,
          normState, matchState, joinState

storeVars == <<db, tx, seq>>
localVars == <<artist, artist_id, entries, files, album_data, tracks, album_id,
               track_ids, li>>
histVars == <<entered, prevRun, commits>>
loaderVars == <<fs, db, tx, seq, pc, runs, prompts, artist, artist_id, entries, files,
                album_data, tracks, album_id, track_ids, li, log_file,
                entered, prevRun, commits, deleted>>
\* the states of the specifications of the normalizer, the matcher and the joiner
pureVars == <<normState, matchState, joinState>>
vars == <<fs, db, tx, seq, pc, runs, prompts, artist, artist_id, entries, files,
          album_data, tracks, album_id, track_ids, li, log_file,
          entered, prevRun, commits, deleted, normState, matchState, joinState>>

NoId == 0      \* Python None where an id is expected (`if not artist_id`)

EmptyStore == [artists |-> {}, albums |-> {}, tracks |-> {}, lyrics |-> {}]

Counts(T) == [artists |-> Cardinality(T.artists), albums |-> Cardinality(T.albums),
              tracks |-> Cardinality(T.tracks), lyrics |-> Cardinality(T.lyrics)]

\* A DATE, INTEGER, BIGINT or BOOLEAN column rejects the empty string; the
\* other cell values of the model are well-formed for their column.
TypedOK(val) == val # ""

\* UNIQUE (name, birth_date): rows conflict when both key columns are
\* non-null and equal (load.py:105)
ArtistConflict(T, v) ==
    \E r \in T.artists :
        /\ v.name # NULL /\ v.birth_date # NULL
        /\ r.name = v.name /\ r.birth_date = v.birth_date

\* UNIQUE (name, artist_id) (load.py:117)
AlbumConflict(T, name, aid) ==
    \E r \in T.albums : name # NULL /\ r.name = name /\ r.artist_id = aid

\* UNIQUE (name, album_id) (load.py:130)
TrackConflict(T, name, alid) ==
    \E r \in T.tracks : name # NULL /\ r.name = name /\ r.album_id = alid

\* PRIMARY KEY track_id (load.py:136)
LyricsConflict(T, tid) == \E r \in T.lyrics : r.track_id = tid

\* insert_artist as it would be if the statement returned an id on a conflict
\* too (the value drawn from the sequence)
insert_artist_id_on_conflict(T, s, a) ==
    LET v == [k \in DOMAIN a |-> to_python_type(a[k])]
        id == s.artists + 1
        s2 == [s EXCEPT !.artists = id]
    IN  IF v.name = NULL
        THEN [raised |-> TRUE, T |-> T, seq |-> s2, id |-> NoId]
        ELSE IF ArtistConflict(T, v)
        THEN [raised |-> FALSE, T |-> T, seq |-> s2, id |-> id]
        ELSE [raised |-> FALSE,
              T |-> [T EXCEPT !.artists = @ \cup {[id |-> id] @@ v}],
              seq |-> s2, id |-> id]

\* load.py:251-279.  The result: whether the driver raised, the tables and
\* sequences after the statement, the id returned (NoId on conflict).
insert_artist(T, s, a) ==
    LET v == [k \in DOMAIN a |-> to_python_type(a[k])]
        id == s.artists + 1
        s2 == [s EXCEPT !.artists = id]
    IN  IF v.name = NULL     \* name TEXT NOT NULL
        THEN [raised |-> TRUE, T |-> T, seq |-> s2, id |-> NoId]
        ELSE IF ArtistConflict(T, v)
        THEN [raised |-> FALSE, T |-> T, seq |-> s2, id |-> NoId]
        ELSE [raised |-> FALSE,
              T |-> [T EXCEPT !.artists = @ \cup {[id |-> id] @@ v}],
              seq |-> s2, id |-> id]

\* insert_album as it would be with ON CONFLICT ... DO UPDATE
insert_album_do_update(T, s, album, aid) ==
    LET v == [name |-> to_python_type(album.name),
              artist_id |-> aid,
              release_date |-> to_python_type(album.release_date),
              popularity |-> to_python_type(album.popularity),
              image_url |-> to_python_type(album.image_url)]
        id == s.albums + 1
        s2 == [s EXCEPT !.albums = id]
    IN  IF v.name = NULL \/ ~TypedOK(v.release_date) \/ ~TypedOK(v.popularity)
        THEN [raised |-> TRUE, T |-> T, seq |-> s2, id |-> NoId]
        ELSE IF AlbumConflict(T, v.name, aid)
        THEN LET old == CHOOSE r \in T.albums : r.name = v.name /\ r.artist_id = aid
             IN  [raised |-> FALSE,
                  T |-> [T EXCEPT !.albums = (@ \ {old}) \cup {[id |-> old.id] @@ v}],
                  seq |-> s2, id |-> old.id]
        ELSE [raised |-> FALSE,
              T |-> [T EXCEPT !.albums = @ \cup {[id |-> id] @@ v}],
              seq |-> s2, id |-> id]

\* load.py:282-309
insert_album(T, s, album, aid) ==
    LET v == [name |-> to_python_type(album.name),
              artist_id |-> aid,
              release_date |-> to_python_type(album.release_date),
              popularity |-> to_python_type(album.popularity),
              image_url |-> to_python_type(album.image_url)]
        id == s.albums + 1
        s2 == [s EXCEPT !.albums = id]
    IN  IF v.name = NULL \/ ~TypedOK(v.release_date) \/ ~TypedOK(v.popularity)
        THEN [raised |-> TRUE, T |-> T, seq |-> s2, id |-> NoId]
        ELSE IF AlbumConflict(T, v.name, aid)
        THEN [raised |-> FALSE, T |-> T, seq |-> s2, id |-> NoId]
        ELSE [raised |-> FALSE,
              T |-> [T EXCEPT !.albums = @ \cup {[id |-> id] @@ v}],
              seq |-> s2, id |-> id]

\* the value tuple of one track (load.py:322-329)
TrackValues(t, alid) ==
    [name |-> to_python_type(t.name),
     album_id |-> alid,
     track_number |-> t.track_number,
     duration_ms |-> to_python_type(t.duration_ms),
     explicit |-> to_python_type(t.explicit),
     popularity |-> to_python_type(t.popularity)]

TrackRaises(v) ==
    \/ v.name = NULL
    \/ ~TypedOK(v.duration_ms) \/ ~TypedOK(v.explicit) \/ ~TypedOK(v.popularity)

\* the multi-row INSERT as it would be with ON CONFLICT (name, album_id) DO
\* UPDATE: a later row of the same name replaces the track
RECURSIVE InsertTrackRows_do_update(_, _, _, _, _)
InsertTrackRows_do_update(T, s, ts, i, alid) ==
    IF i > Len(ts) THEN [T |-> T, seq |-> s]
    ELSE LET v == TrackValues(ts[i], alid)
             id == s.tracks + 1
             s2 == [s EXCEPT !.tracks = id]
         IN  InsertTrackRows_do_update(
                 [T EXCEPT !.tracks =
                     {r \in @ : ~(r.name = v.name /\ r.album_id = alid)}
                         \cup {[id |-> id] @@ v}],
                 s2, ts, i + 1, alid)

\* the rows of the multi-row INSERT ... ON CONFLICT DO NOTHING, in order
RECURSIVE InsertTrackRows(_, _, _, _, _)
InsertTrackRows(T, s, ts, i, alid) ==
    IF i > Len(ts) THEN [T |-> T, seq |-> s]
    ELSE LET v == TrackValues(ts[i], alid)
             id == s.tracks + 1
             s2 == [s EXCEPT !.tracks = id]
         IN  IF TrackConflict(T, v.name, alid)
             THEN InsertTrackRows(T, s2, ts, i + 1, alid)
             ELSE InsertTrackRows([T EXCEPT !.tracks = @ \cup {[id |-> id] @@ v}],
                                  s2, ts, i + 1, alid)

\* load.py:312-337
insert_tracks(T, s, ts, alid) ==
    IF \E i \in 1..Len(ts) : TrackRaises(TrackValues(ts[i], alid))
    THEN [raised |-> TRUE, T |-> T, seq |-> s]
    ELSE LET r == InsertTrackRows(T, s, ts, 1, alid)
         IN  [raised |-> FALSE, T |-> r.T, seq |-> r.seq]

\* get_track_name_to_id as it would be without WHERE album_id = %s
get_track_name_to_id_unscoped(T, alid) ==
    [n \in {r.name : r \in T.tracks} |-> (CHOOSE r \in T.tracks : r.name = n).id]

\* load.py:340-355
get_track_name_to_id(T, alid) ==
    LET rows == {r \in T.tracks : r.album_id = alid}
    IN  [n \in {r.name : r \in rows} |-> (CHOOSE r \in rows : r.name = n).id]

\* track_name_to_id.get(name)
DictGet(d, k) == IF k \in DOMAIN d THEN d[k] ELSE NoId

\* insert_lyrics as it would be with ON CONFLICT (track_id) DO UPDATE SET
\* text = EXCLUDED.text
insert_lyrics_row_do_update(T, t, name_to_id) ==
    LET track_id == DictGet(name_to_id, t.name)
    IN  IF track_id = NoId THEN T
        ELSE [T EXCEPT !.lyrics = {r \in @ : r.track_id # track_id} \cup {
                [track_id |-> track_id, text |-> to_python_type(t.lyrics),
                 readability_score |-> NULL, sentiment_score |-> NULL,
                 word_count |-> NULL, line_count |-> NULL,
                 char_count |-> NULL, lexical_density |-> NULL]}]

\* insert_lyrics as it would be if it skipped a track without lyric text
insert_lyrics_row_skip_empty(T, t, name_to_id) ==
    LET track_id == DictGet(name_to_id, t.name)
    IN  IF track_id = NoId \/ t.lyrics = "" THEN T
        ELSE IF LyricsConflict(T, track_id) THEN T
        ELSE [T EXCEPT !.lyrics = @ \cup {
                [track_id |-> track_id, text |-> to_python_type(t.lyrics),
                 readability_score |-> NULL, sentiment_score |-> NULL,
                 word_count |-> NULL, line_count |-> NULL,
                 char_count |-> NULL, lexical_density |-> NULL]}]

\* one iteration of the loop of insert_lyrics (load.py:367-381)
insert_lyrics_row(T, t, name_to_id) ==
    LET track_id == DictGet(name_to_id, t.name)
    IN  IF track_id = NoId THEN T
        ELSE IF LyricsConflict(T, track_id) THEN T
        ELSE [T EXCEPT !.lyrics = @ \cup {
                [track_id |-> track_id, text |-> to_python_type(t.lyrics),
                 readability_score |-> NULL, sentiment_score |-> NULL,
                 word_count |-> NULL, line_count |-> NULL,
                 char_count |-> NULL, lexical_density |-> NULL]}]

(***************************************************************************)
(* main() of load.py, one action per step of its loops.                    *)
(*   pc: idle     no loader run yet on the current files                   *)
(*       prompt   at input() (load.py:415)                                 *)
(*       albums   at the head of `for album_dir in artist_dir.iterdir()`   *)
(*       files    at the head of `for file in album_dir.glob(...)`         *)
(*       tracks   before insert_tracks    lookup  before get_track_name_to_id *)
(*       lyrics   inside insert_lyrics, at track li                        *)
(*       done     main returned           killed  the process was terminated *)
(*       raised   an exception left main (no handler in load.py)           *)
(***************************************************************************)
NoAlbum == [name |-> "", release_date |-> "", popularity |-> "", image_url |-> ""]
NoPrev == [valid |-> FALSE, entered |-> << >>, counts |-> Counts(EmptyStore)]

Stopped == {"idle", "done", "killed", "raised"}

ClearLocals ==
    /\ artist' = ""
    /\ artist_id' = NoId
    /\ entries' = << >>
    /\ files' = << >>
    /\ album_data' = NoAlbum
    /\ tracks' = << >>
    /\ album_id' = NoId
    /\ track_ids' = << >>
    /\ li' = 1

NormIdle == [pc |-> "idle", base |-> << >>, first |-> << >>, second |-> << >>,
             key |-> << >>, bare |-> << >>]
MatchIdle == [pc |-> "idle", song_title |-> << >>, txt_files |-> << >>,
              lyrics_map |-> << >>, match_log |-> << >>, text |-> ""]
NoOutput == [logs |-> << >>, successes |-> << >>, processed |-> {},
             log_files |-> << >>, metadata_dst |-> {}, copies |-> << >>]
NoTrees == [genius |-> << >>, spotify |-> << >>]
JoinIdle == [pc |-> "idle", trees |-> NoTrees, todo |-> << >>, called |-> << >>,
             out |-> NoOutput, failed_log |-> << >>]

PureIdle ==
    /\ normState = NormIdle
    /\ matchState = MatchIdle
    /\ joinState = JoinIdle

LoaderAt(configs) ==
    /\ fs \in configs
    /\ db = EmptyStore
    /\ tx = EmptyStore
    /\ seq = [artists |-> 0, albums |-> 0, tracks |-> 0]
    /\ pc = "idle"
    /\ runs = 0
    /\ prompts = 0
    /\ artist = ""
    /\ artist_id = NoId
    /\ entries = << >>
    /\ files = << >>
    /\ album_data = NoAlbum
    /\ tracks = << >>
    /\ album_id = NoId
    /\ track_ids = << >>
    /\ li = 1
    /\ log_file = << >>
    /\ entered = << >>
    /\ prevRun = NoPrev
    /\ commits = << >>
    /\ deleted = EmptyStore

LoaderInit == LoaderAt(FsConfigs)

Init == LoaderInit /\ PureIdle

\* the loader at rest, in the specifications of the other components
LoaderIdle == LoaderInit /\ fs = FS1

\* load.py:399-409: connect, create_tables (IF NOT EXISTS), commit, open the log
StartRun ==
    /\ pc \in Stopped
    /\ runs < RunLimit(fs)
    /\ runs' = runs + 1
    /\ pc' = "prompt"
    /\ tx' = db
    /\ prompts' = 0
    /\ log_file' = << >>
    /\ entered' = << >>
    /\ commits' = << >>
    /\ prevRun' = IF pc = "done"
                  THEN [valid |-> TRUE, entered |-> entered, counts |-> Counts(db)]
                  ELSE NoPrev
    /\ ClearLocals
    /\ UNCHANGED <<pureVars, fs, deleted, db, seq>>

\* An uncaught exception ends the process; the open transaction is lost.
Raise(s2) ==
    /\ pc' = "raised"
    /\ tx' = db
    /\ seq' = s2
    /\ ClearLocals
    /\ prompts' = 0
    /\ entered' = << >>
    /\ log_file' = << >>
    /\ UNCHANGED <<pureVars, fs, deleted, db, runs, prevRun, commits>>

\* load.py:415-418 and 471-475: 'exit' typed; close without commit
Exit ==
    /\ pc = "prompt"
    /\ pc' = "done"
    /\ tx' = db
    /\ ClearLocals
    /\ prompts' = 0
    /\ UNCHANGED <<pureVars, fs, deleted, db, seq, runs, log_file, histVars>>

\* the fallback of load.py:432-435: SELECT id FROM artists WHERE name = %s,
\* fetchone(): some row of that name, NoId when there is none
ArtistLookup(T, name) ==
    IF \E r \in T.artists : r.name = name
    THEN {r.id : r \in {x \in T.artists : x.name = name}}
    ELSE {NoId}

\* the fallback of load.py:453-457
AlbumLookup(T, name, aid) ==
    IF \E r \in T.albums : r.name = name /\ r.artist_id = aid
    THEN {r.id : r \in {x \in T.albums : x.name = name /\ x.artist_id = aid}}
    ELSE {NoId}

\* load.py:415-439: an artist name typed at the prompt
LoadArtist(a) ==
    /\ pc = "prompt"
    /\ prompts < MaxPrompts
    /\ IF ~fs[a].has_meta
       THEN /\ prompts' = prompts + 1
            /\ entered' = Append(entered, a)
            /\ UNCHANGED <<pureVars, fs, deleted, storeVars, pc, runs, localVars, log_file, prevRun, commits>>
       ELSE LET artist_data == parse_artist_csv(fs[a].meta)
                r == insert_artist(tx, seq, artist_data)
            IN  IF r.raised
                THEN Raise(r.seq)
                ELSE \E id \in (IF r.id # NoId THEN {r.id}
                                ELSE ArtistLookup(r.T, to_python_type(artist_data.name))) :
                        /\ prompts' = prompts + 1
                        /\ entered' = Append(entered, a)
                        /\ tx' = r.T
                        /\ seq' = r.seq
                        /\ IF id = NoId
                           THEN UNCHANGED <<pc, localVars>>
                           ELSE /\ pc' = "albums"
                                /\ artist' = a
                                /\ artist_id' = id
                                /\ entries' = fs[a].entries
                                /\ UNCHANGED <<files, album_data, tracks, album_id,
                                               track_ids, li>>
                        /\ UNCHANGED <<pureVars, fs, deleted, db, runs, log_file, prevRun, commits>>

\* load.py:442-445: the next entry of the artist folder
NextEntry ==
    /\ pc = "albums"
    /\ IF entries = << >>
       THEN /\ pc' = "prompt"
            /\ ClearLocals
            /\ UNCHANGED log_file
       ELSE LET album_dir == Head(entries)
            IN  /\ entries' = Tail(entries)
                /\ IF ~album_dir.is_dir \/ ~is_valid_album_name(album_dir.name)
                   THEN /\ log_file' = Append(log_file, <<artist, album_dir.name>>)
                        /\ UNCHANGED <<pc, files>>
                   ELSE /\ files' = album_dir.finals
                        /\ pc' = "files"
                        /\ UNCHANGED log_file
                /\ UNCHANGED <<artist, artist_id, album_data, tracks, album_id,
                               track_ids, li>>
    /\ UNCHANGED <<pureVars, fs, deleted, storeVars, runs, prompts, histVars>>

\* load.py:448-461: parse one *_final.csv and upsert its album
LoadAlbum ==
    /\ pc = "files"
    /\ IF files = << >>
       THEN /\ pc' = "albums"
            /\ UNCHANGED <<pureVars, fs, deleted, storeVars, runs, prompts, localVars, log_file, histVars>>
       ELSE LET csv == Head(files)
            IN  IF Len(csv) = 0     \* df.iloc[0] raises IndexError
                THEN Raise(seq)
                ELSE LET r == insert_album(tx, seq, parse_album_data(csv), artist_id)
                     IN  IF r.raised
                         THEN Raise(r.seq)
                         ELSE \E id \in (IF r.id # NoId THEN {r.id}
                                         ELSE AlbumLookup(r.T,
                                                to_python_type(parse_album_data(csv).name),
                                                artist_id)) :
                                /\ tx' = r.T
                                /\ seq' = r.seq
                                /\ files' = Tail(files)
                                /\ IF id = NoId
                                   THEN UNCHANGED <<pc, album_data, tracks, album_id>>
                                   ELSE /\ pc' = "tracks"
                                        /\ album_data' = parse_album_data(csv)
                                        /\ tracks' = parse_tracks(csv)
                                        /\ album_id' = id
                                /\ UNCHANGED <<pureVars, fs, deleted, db, runs, prompts, artist, artist_id,
                                               entries, track_ids, li, log_file,
                                               histVars>>

\* load.py:464
InsertTracks ==
    /\ pc = "tracks"
    /\ LET r == insert_tracks(tx, seq, tracks, album_id)
       IN  IF r.raised
           THEN Raise(r.seq)
           ELSE /\ tx' = r.T
                /\ seq' = r.seq
                /\ pc' = "lookup"
                /\ UNCHANGED <<pureVars, fs, deleted, db, runs, prompts, localVars, log_file, histVars>>

\* load.py:465
GetTrackIds ==
    /\ pc = "lookup"
    /\ track_ids' = get_track_name_to_id(tx, album_id)
    /\ li' = 1
    /\ pc' = "lyrics"
    /\ UNCHANGED <<pureVars, fs, deleted, storeVars, runs, prompts, artist, artist_id, entries, files,
                   album_data, tracks, album_id, log_file, histVars>>

\* load.py:466: one track of insert_lyrics
InsertLyrics ==
    /\ pc = "lyrics"
    /\ li <= Len(tracks)
    /\ tx' = insert_lyrics_row(tx, tracks[li], track_ids)
    /\ li' = li + 1
    /\ UNCHANGED <<pureVars, fs, deleted, db, seq, pc, runs, prompts, artist, artist_id, entries, files,
                   album_data, tracks, album_id, track_ids, log_file, histVars>>

\* load.py:469: conn.commit() for this album
Commit ==
    /\ pc = "lyrics"
    /\ li > Len(tracks)
    /\ db' = tx
    /\ pc' = "files"
    /\ commits' = Append(commits, [artist_id |-> artist_id, album_id |-> album_id,
                                   name |-> album_data.name, tracks |-> tracks])
    /\ album_data' = NoAlbum
    /\ tracks' = << >>
    /\ album_id' = NoId
    /\ track_ids' = << >>
    /\ li' = 1
    /\ UNCHANGED <<pureVars, fs, deleted, tx, seq, runs, prompts, artist, artist_id, entries, files,
                   log_file, entered, prevRun>>

\* the loader process is terminated from outside; the server rolls the open
\* transaction back
Kill ==
    /\ pc \notin Stopped
    /\ pc' = "killed"
    /\ tx' = db
    /\ ClearLocals
    /\ prompts' = 0
    /\ entered' = << >>
    /\ log_file' = << >>
    /\ UNCHANGED <<pureVars, fs, deleted, db, seq, runs, prevRun, commits>>

\* the pipeline rewrites the files under processed/ between two loader runs
Rescrape ==
    /\ pc \in Stopped
    /\ fs' \in FsLater(fs)
    /\ pc' = "idle"
    /\ UNCHANGED <<pureVars, deleted, storeVars, runs, prompts, localVars, log_file, histVars>>

\* the rows removed if lyrics.track_id had no ON DELETE CASCADE action
CascadeRows_lyrics_kept(T, aid) ==
    LET als == {al \in T.albums : al.artist_id = aid}
        trs == {t \in T.tracks : \E al \in als : t.album_id = al.id}
    IN  [artists |-> {a \in T.artists : a.id = aid},
         albums |-> als,
         tracks |-> trs,
         lyrics |-> {}]

\* ON DELETE CASCADE of albums.artist_id, tracks.album_id and lyrics.track_id
\* (load.py:113, 125, 136): the rows that DELETE FROM artists WHERE id = aid
\* removes
CascadeRows(T, aid) ==
    LET als == {al \in T.albums : al.artist_id = aid}
        trs == {t \in T.tracks : \E al \in als : t.album_id = al.id}
    IN  [artists |-> {a \in T.artists : a.id = aid},
         albums |-> als,
         tracks |-> trs,
         lyrics |-> {L \in T.lyrics : \E t \in trs : L.track_id = t.id}]

\* a client of the store deletes one artist between two loader runs
DeleteArtist ==
    /\ pc \in Stopped
    /\ \E a \in db.artists :
          LET gone == CascadeRows(db, a.id)
              left == [t \in DOMAIN db |-> db[t] \ gone[t]]
          IN  /\ db' = left
              /\ tx' = left
              /\ deleted' = gone
    /\ pc' = "idle"
    /\ UNCHANGED <<pureVars, fs, seq, runs, prompts, localVars, log_file, histVars>>

Next ==
    \/ StartRun
    \/ Exit
    \/ \E a \in ArtistNames : LoadArtist(a)
    \/ NextEntry
    \/ LoadAlbum
    \/ InsertTracks
    \/ GetTrackIds
    \/ InsertLyrics
    \/ Commit
    \/ Kill
    \/ Rescrape

Spec == Init /\ [][Next]_vars

(***************************************************************************)
(* SpecNorm: normalize_for_match applied to a title and to its bare form.  *)
(***************************************************************************)
InitNorm ==
    /\ LoaderIdle
    /\ matchState = MatchIdle
    /\ joinState = JoinIdle
    /\ normState \in {[pc |-> "input", base |-> b, first |-> x, second |-> y,
                        key |-> << >>, bare |-> << >>] :
                       b \in Bases, x \in Suffixes, y \in Suffixes}

Normalize ==
    /\ normState.pc = "input"
    /\ normState' = [normState EXCEPT
          !.pc = "done",
          !.key = normalize_for_match(normState.base \o normState.first \o normState.second),
          !.bare = normalize_for_match(normState.base)]
    /\ UNCHANGED <<loaderVars, matchState, joinState>>

NextNorm == Normalize

SpecNorm == InitNorm /\ [][NextNorm]_vars

(***************************************************************************)
(* The matcher on its own: one lyric folder is read into a map             *)
(* (load_combined_lyrics_map), then one SongName is matched against it     *)
(* (match_lyrics) with an empty match_log, as join_album starts it.        *)
(***************************************************************************)
MaxFiles == 3

TxtFile(stem, content) == [stem |-> stem, content |-> content]

\* the lyric files a folder of the model can hold
LyricFiles ==
    { TxtFile(TitleSong, "la song"),
      TxtFile(TitleSongs, "la songs"),
      TxtFile(TitleSang, " "),
      TxtFile(TitleSong \o SufRemix, "la remix"),
      TxtFile(TitleSong \o SufRemixBr, "la remix br"),
      TxtFile(TitleBlankSpace, "la blank space"),
      TxtFile(TitleBlankSpaces, "la blank spaces") }

\* the listings of a folder: up to n of the files, in any order
RECURSIVE Listings(_, _)
Listings(F, n) ==
    IF n = 0 THEN { << >> }
    ELSE LET shorter == Listings(F, n - 1)
         IN  shorter \cup { Append(l, f) : l \in shorter, f \in F }

FolderListings(F, n) ==
    { l \in Listings(F, n) : \A i, j \in 1..Len(l) : i # j => l[i] # l[j] }

SongNames ==
    { TitleSong, TitleSong \o SufFeat, TitleSong \o SufRemix, TitleSing,
      TitleBlankSpace, TitleBlankSpaces \o SufLive, TitleRemix, TitleZebra }

InitMatch ==
    /\ LoaderIdle
    /\ normState = NormIdle
    /\ joinState = JoinIdle
    /\ matchState \in {[MatchIdle EXCEPT !.pc = "input", !.song_title = t,
                                          !.txt_files = l] :
                        t \in SongNames, l \in FolderListings(LyricFiles, MaxFiles)}

LoadLyricsMap ==
    /\ matchState.pc = "input"
    /\ matchState' = [matchState EXCEPT
          !.pc = "loaded",
          !.lyrics_map = combine_lyrics(matchState.txt_files, 1, << >>)]
    /\ UNCHANGED <<loaderVars, normState, joinState>>

MatchLyrics ==
    /\ matchState.pc = "loaded"
    /\ LET r == match_lyrics(matchState.song_title, matchState.lyrics_map,
                             matchState.match_log)
       IN  matchState' = [matchState EXCEPT !.pc = "done", !.text = r.text,
                                            !.match_log = r.log]
    /\ UNCHANGED <<loaderVars, normState, joinState>>

NextMatch == LoadLyricsMap \/ MatchLyrics

SpecMatch == InitMatch /\ [][NextMatch]_vars

(***************************************************************************)
(* The joiner (join_lyrics_and_metadata.py:43-223).  Directory trees are   *)
(* listings in iterdir order; a directory is found by its exact name.      *)
(***************************************************************************)
FolderCutoff == 85      \* cutoff=0.85, in hundredths
CsvCutoff == 40         \* cutoff=0.4, in hundredths

NoError == "no error"
ErrNoDirectory == "[Errno 2] No such file or directory"
ErrNoFolder == "No matching folder found"
ErrNoAlbumFolder == "No matching album folder found"
ErrNoLyrics == "No lyrics loaded"
ErrPermission == "[Errno 13] Permission denied"

SufTransformed == <<"_","t","r","a","n","s","f","o","r","m","e","d">>

\* str.replace(old, "") from position i on
RECURSIVE RemoveAll(_, _, _)
RemoveAll(s, old, i) ==
    IF i > Len(s) THEN << >>
    ELSE IF i + Len(old) - 1 <= Len(s) /\ SubSeq(s, i, i + Len(old) - 1) = old
    THEN RemoveAll(s, old, i + Len(old))
    ELSE <<s[i]>> \o RemoveAll(s, old, i + 1)

IsDir(e) == e.is_dir

\* the directory of that name in a listing, or none
HasDir(listing, name) ==
    \E i \in 1..Len(listing) : listing[i].is_dir /\ listing[i].name = name
DirNamed(listing, name) ==
    listing[CHOOSE i \in 1..Len(listing) : listing[i].is_dir /\ listing[i].name = name]

NoFolder == [name |-> << >>, is_dir |-> FALSE]

\* the keys of folder_map (line 47), by position of the folder
FolderKeys(album_folders) ==
    [i \in 1..Len(album_folders) |-> ToLower(normalize_unicode(album_folders[i].name))]

\* folder_map[k]: the dict keeps the last folder of a key
FolderOfKey(album_folders, keys, k) ==
    [raised |-> NoError,
     folder |-> album_folders[SetMax({i \in 1..Len(keys) : keys[i] = k})]]

\* lines 53-56, match being what get_close_matches returned
FolderFuzzy(album_folders, keys, match) ==
    IF match # << >> THEN FolderOfKey(album_folders, keys, match[1])
    ELSE [raised |-> ErrNoFolder, folder |-> NoFolder]

\* lines 49-56
FolderLookup(album_folders, keys, normalized_album) ==
    IF \E i \in 1..Len(keys) : keys[i] = normalized_album
    THEN FolderOfKey(album_folders, keys, normalized_album)
    ELSE FolderFuzzy(album_folders, keys,
                     get_close_matches(normalized_album, keys, FolderCutoff))

FolderIn(album_folders, normalized_album) ==
    FolderLookup(album_folders, FolderKeys(album_folders), normalized_album)

\* join_lyrics_and_metadata.py:43-56
find_album_folder_path(genius, artist_name, album) ==
    IF ~HasDir(genius, artist_name) THEN [raised |-> ErrNoDirectory, folder |-> NoFolder]
    ELSE FolderIn(SelectSeq(DirNamed(genius, artist_name).entries, IsDir),
                  ToLower(normalize_unicode(album)))

HasCsv(d) == d.csvs # << >>

\* the (stem, folder) of line 70
Candidate(folder) ==
    [stem |-> normalize_unicode(
                  RemoveAll(ToLower(folder.csvs[1].stem), SufTransformed, 1)),
     folder |-> folder]

\* candidates (lines 63-70), with_csv being the folders that hold a CSV
Candidates(with_csv) == [i \in 1..Len(with_csv) |-> Candidate(with_csv[i])]

\* lines 79-83, bySub being the candidates whose stem contains the album
SubstringPick(candidates, bySub) ==
    IF bySub # {} THEN [raised |-> NoError, folder |-> candidates[SetMin(bySub)].folder]
    ELSE [raised |-> ErrNoAlbumFolder, folder |-> NoFolder]

\* lines 74-83, matches being what get_close_matches returned
CsvPick(candidates, album, matches) ==
    IF matches # << >>
    THEN [raised |-> NoError,
          folder |-> candidates[SetMin({i \in 1..Len(candidates) :
                                          candidates[i].stem = matches[1]})].folder]
    ELSE SubstringPick(candidates,
            {i \in 1..Len(candidates) : Contains(candidates[i].stem, album)})

\* lines 72-83
CsvLookup(candidates, album) ==
    CsvPick(candidates, album,
            get_close_matches(album, [i \in 1..Len(candidates) |-> candidates[i].stem],
                              CsvCutoff))

\* join_lyrics_and_metadata.py:58-83
find_album_dir_by_csv(spotify, artist_name, album) ==
    IF ~HasDir(spotify, artist_name) THEN [raised |-> ErrNoDirectory, folder |-> NoFolder]
    ELSE CsvLookup(Candidates(SelectSeq(SelectSeq(DirNamed(spotify, artist_name).entries,
                                                  IsDir), HasCsv)),
                   normalize_unicode(ToLower(album)))

\* lines 90-102, found being what find_album_folder_path gave
LoadFolder(found) ==
    IF found.raised # NoError
    THEN [raised |-> found.raised, lyrics_map |-> << >>]
    ELSE [raised |-> NoError,
          lyrics_map |-> combine_lyrics(found.folder.txt_files, 1, << >>)]

\* join_lyrics_and_metadata.py:89-102
load_combined_lyrics_map(genius, artist_name, album) ==
    LoadFolder(find_album_folder_path(genius, artist_name, album))

\* df["SongName"].apply(match_lyrics) (line 161): the Lyrics column and the
\* match_log after the rows from i on
RECURSIVE ApplyMatch(_, _, _, _, _)
RECURSIVE ApplyNext(_, _, _, _, _)
ApplyNext(df, i, lyrics_map, column, r) ==
    ApplyMatch(df, i + 1, lyrics_map, Append(column, r.text), r.log)

ApplyMatch(df, i, lyrics_map, column, match_log) ==
    IF i > Len(df) THEN [column |-> column, match_log |-> match_log]
    ELSE ApplyNext(df, i, lyrics_map, column,
                   match_lyrics(df[i].SongName, lyrics_map, match_log))

\* join_lyrics_and_metadata.py:131-137, on the SongPopularity cells (the
\* TrackNumber column is range(1, n + 1), integers already)
convert_types(df) ==
    [i \in 1..Len(df) |->
        [df[i] EXCEPT !.SongPopularity = IF @ = NaN THEN NULL ELSE @]]

\* the line join_album appends to logs (line 198)
FailureLine(artist_name, album, err) == <<artist_name, " - ", album, ": ", err>>
SuccessLine(artist_name, album) == <<artist_name, " - ", album>>

\* join_album, lines 163-195, once the Lyrics column is there: the log files,
\* the final CSV, the success line and the copy of the artist metadata.
\* out.processed holds the final CSVs, one per path; out.metadata_dst the
\* copied metadata files with their mode.
join_album_write(out, artist_n, album, with_lyrics, match_log, missing, metadata_src) ==
    LET matched_file == IF match_log = << >> THEN << >>
                        ELSE << [kind |-> "matched_lyrics", artist |-> artist_n,
                                 album |-> album, lines |-> match_log] >>
        missing_file == IF missing = << >> THEN << >>
                        ELSE << [kind |-> "missing_lyrics", artist |-> artist_n,
                                 album |-> album, lines |-> missing] >>
        final == [artist |-> artist_n, album |-> album,
                  rows |-> convert_types(with_lyrics)]
        written == [out EXCEPT
            !.log_files = @ \o matched_file \o missing_file,
            !.processed = {f \in @ : ~(f.artist = artist_n /\ f.album = album)}
                              \cup {final},
            !.successes = Append(@, SuccessLine(artist_n, album))]
    IN  IF metadata_src = "none" THEN [out |-> written, raised |-> NoError]
        \* shutil.copy cannot open a destination left read-only by an
        \* earlier copy of a read-only source
        ELSE IF [artist |-> artist_n, read_only |-> TRUE] \in out.metadata_dst
        THEN [out |-> written, raised |-> ErrPermission]
        ELSE [out |-> [written EXCEPT
                        !.metadata_dst = {f \in @ : f.artist # artist_n} \cup
                            {[artist |-> artist_n, read_only |-> metadata_src = "ro"]},
                        !.copies = Append(@, artist_n)],
              raised |-> NoError]

\* df[df["Lyrics"] == ""]["SongName"].tolist() (line 174)
MissingSongs(with_lyrics) ==
    LET empty == SelectSeq(with_lyrics, LAMBDA r : r.Lyrics = "")
    IN  [i \in 1..Len(empty) |-> empty[i].SongName]

\* join_album, lines 160-195, given the track table and what ApplyMatch gave
join_album_matched(trees, out, artist_n, album, df, applied) ==
    LET with_lyrics == [i \in 1..Len(df) |->
                          [TrackNumber |-> df[i].TrackNumber,
                           SongName |-> df[i].SongName,
                           SongPopularity |-> df[i].SongPopularity,
                           Lyrics |-> applied.column[i]]]
    IN  join_album_write(out, artist_n, album, with_lyrics, applied.match_log,
                         MissingSongs(with_lyrics),
                         DirNamed(trees.spotify, artist_n).metadata)

\* pd.read_csv and df.insert(0, "TrackNumber", ...) (lines 153-154)
ReadCsv(csv) ==
    [i \in 1..Len(csv.rows) |->
        [TrackNumber |-> i, SongName |-> csv.rows[i].SongName,
         SongPopularity |-> csv.rows[i].SongPopularity]]

\* join_album, lines 149-195, given what the two lookups gave
join_album_found(trees, out, artist_n, album, found, loaded) ==
    IF found.raised # NoError THEN [out |-> out, raised |-> found.raised]
    ELSE IF loaded.raised # NoError THEN [out |-> out, raised |-> loaded.raised]
    ELSE IF loaded.lyrics_map = << >> THEN [out |-> out, raised |-> ErrNoLyrics]
    ELSE join_album_matched(trees, out, artist_n, album, ReadCsv(found.folder.csvs[1]),
            ApplyMatch(ReadCsv(found.folder.csvs[1]), 1, loaded.lyrics_map, << >>, << >>))

\* join_album, lines 148-195, given the normalized names
join_album_normalized(trees, out, artist_n, album) ==
    join_album_found(trees, out, artist_n, album,
                     find_album_dir_by_csv(trees.spotify, artist_n, album),
                     load_combined_lyrics_map(trees.genius, artist_n, album))

\* the try block of join_album (lines 144-195): the output after it and the
\* exception it raised, if any
join_album_try(trees, out, artist_name, album_name) ==
    join_album_normalized(trees, out, normalize_unicode(artist_name),
                          normalize_unicode(album_name))

\* the except clause (lines 197-198), artist and album being normalized
\* by then
join_album_except(r, artist_n, album) ==
    IF r.raised = NoError THEN r.out
    ELSE [r.out EXCEPT !.logs = Append(@, FailureLine(artist_n, album, r.raised))]

\* a joiner whose handler drops the exception
join_album_silent(trees, out, artist_name, album_name) ==
    join_album_try(trees, out, artist_name, album_name).out

\* join_lyrics_and_metadata.py:143-198: the output after the call
join_album(trees, out, artist_name, album_name) ==
    join_album_except(join_album_try(trees, out, artist_name, album_name),
                      normalize_unicode(artist_name), normalize_unicode(album_name))

\* the calls the loop of run_full_processing makes (lines 209-213), in order
RECURSIVE AlbumCalls(_, _)
AlbumCalls(genius, i) ==
    IF i > Len(genius) THEN << >>
    ELSE (IF genius[i].is_dir
          THEN LET album_dirs == SelectSeq(genius[i].entries, IsDir)
               IN  [k \in 1..Len(album_dirs) |-> <<genius[i].name, album_dirs[k].name>>]
          ELSE << >>)
         \o AlbumCalls(genius, i + 1)

ArtistX == <<"X">>
ArtistYe == <<"Y","E_ACUTE">>
OtherFile == [name |-> <<"n","o","t","e","s">>, is_dir |-> FALSE]

LyricDir(name, txt_files) == [name |-> name, is_dir |-> TRUE, txt_files |-> txt_files]
CsvRow(song, pop) == [SongName |-> song, SongPopularity |-> pop]
CsvFile(name, rows) == [stem |-> name \o SufTransformed, rows |-> rows]
CsvDir(name, csvs) == [name |-> name, is_dir |-> TRUE, csvs |-> csvs]
ArtistDir(name, listing) == [name |-> name, is_dir |-> TRUE, entries |-> listing]
SpotifyDir(name, listing, metadata) ==
    [name |-> name, is_dir |-> TRUE, entries |-> listing, metadata |-> metadata]

CsvSong ==
    CsvDir(TitleSong, << CsvFile(TitleSong,
        << CsvRow(TitleSong, "50"), CsvRow(TitleSong \o SufFeat, NaN),
           CsvRow(TitleZebra, "10") >>) >>)
CsvSongs == CsvDir(TitleSongs, << CsvFile(TitleSongs, << CsvRow(TitleSongs, "40") >>) >>)
CsvBlankSpace ==
    CsvDir(TitleBlankSpace, << CsvFile(TitleBlankSpace,
        << CsvRow(TitleBlankSpace, "70"), CsvRow(TitleRemix, NaN) >>) >>)
CsvZebra == CsvDir(TitleZebra, << CsvFile(TitleZebra, << CsvRow(TitleSong, "5") >>) >>)

\* the lyric folders of an album in the model
LyricChoices ==
    { << >>,
      << TxtFile(TitleSong, "la song") >>,
      << TxtFile(TitleSongs, "la songs"), TxtFile(TitleSong, "la song") >>,
      << TxtFile(TitleSong \o SufRemix, "la remix"),
         TxtFile(TitleSong \o SufRemixBr, "la remix br") >>,
      \* a lyric file the cleaning left without text
      << TxtFile(TitleSong, " "), TxtFile(TitleZebra, "la zebra") >> }

\* the album folders under transformations/SPOTIFY/X
SpotifyChoices ==
    { << >>,
      << CsvSong >>,
      << CsvSong, OtherFile, CsvBlankSpace >>,
      << CsvSongs >>,
      << CsvDir(TitleSong, << >>), CsvBlankSpace >> }

\* transformations/: GENIUS holds X (two albums) and Ye (one album, the name
\* in composed form); SPOTIFY holds X or not, and Ye under the decomposed
\* name or not
Trees(g1, g2, hasX, sx, mx, hasYe) ==
    [genius |-> << ArtistDir(ArtistX, << LyricDir(TitleSong, g1), OtherFile,
                                         LyricDir(TitleBlankSpace, g2) >>),
                   OtherFile,
                   ArtistDir(ArtistYe,
                             << LyricDir(TitleZebra, << TxtFile(TitleSong, "la song") >>) >>) >>,
     spotify |-> (IF hasX THEN << SpotifyDir(ArtistX, sx, mx) >> ELSE << >>)
                 \o (IF hasYe
                     THEN << SpotifyDir(normalize_unicode(ArtistYe), << CsvZebra >>, "none") >>
                     ELSE << >>)]

TreeConfigs ==
    { Trees(g1, g2, TRUE, sx, mx, hasYe) :
        g1 \in LyricChoices, g2 \in LyricChoices, sx \in SpotifyChoices,
        mx \in {"none", "rw", "ro"}, hasYe \in BOOLEAN }
    \cup { Trees(g1, << TxtFile(TitleBlankSpace, "la blank space") >>, FALSE, << >>,
                 "none", hasYe) :
             g1 \in LyricChoices, hasYe \in BOOLEAN }

InitJoin ==
    /\ LoaderIdle
    /\ normState = NormIdle
    /\ matchState = MatchIdle
    /\ joinState \in {[JoinIdle EXCEPT !.pc = "input", !.trees = t] : t \in TreeConfigs}

\* run_full_processing, lines 204-209: the loop starts
StartProcessing ==
    /\ joinState.pc = "input"
    /\ joinState' = [joinState EXCEPT !.pc = "running",
                                      !.todo = AlbumCalls(joinState.trees.genius, 1)]
    /\ UNCHANGED <<loaderVars, normState, matchState>>

\* one pass of the loop: join_album on the next album folder (line 213)
JoinNext ==
    /\ joinState.pc = "running"
    /\ joinState.todo # << >>
    /\ LET call == Head(joinState.todo)
       IN  joinState' = [joinState EXCEPT
              !.out = join_album(joinState.trees, joinState.out, call[1], call[2]),
              !.called = Append(@, call),
              !.todo = Tail(@)]
    /\ UNCHANGED <<loaderVars, normState, matchState>>

\* after the loop: the failure log is written when logs is not empty
\* (lines 215-219)
FinishProcessing ==
    /\ joinState.pc = "running"
    /\ joinState.todo = << >>
    /\ joinState' = [joinState EXCEPT !.pc = "done", !.failed_log = joinState.out.logs]
    /\ UNCHANGED <<loaderVars, normState, matchState>>

NextJoin == StartProcessing \/ JoinNext \/ FinishProcessing

SpecJoin == InitJoin /\ [][NextJoin]_vars

\* the loader run to completion, and artists deleted between its runs
NextCascade ==
    \/ StartRun
    \/ Exit
    \/ \E a \in ArtistNames : LoadArtist(a)
    \/ NextEntry
    \/ LoadAlbum
    \/ InsertTracks
    \/ GetTrackIds
    \/ InsertLyrics
    \/ Commit
    \/ DeleteArtist

SpecCascade == Init /\ [][NextCascade]_vars

\* the loader run to completion on the files of one artist whose birth date
\* the pipeline rewrites between the runs
InitFallback == LoaderAt({FS3}) /\ PureIdle

NextFallback ==
    \/ StartRun
    \/ Exit
    \/ \E a \in ArtistNames : LoadArtist(a)
    \/ NextEntry
    \/ LoadAlbum
    \/ InsertTracks
    \/ GetTrackIds
    \/ InsertLyrics
    \/ Commit
    \/ Rescrape

SpecFallback == InitFallback /\ [][NextFallback]_vars

(***************************************************************************)
(* The package-style loader: run_etl (run_loading.py:30-75) with the       *)
(* listing of paths.py, the parsers of parser.py and the statements of     *)
(* loader.py, over the same files and the same store.  all_data is kept in *)
(* entries, the albums still to visit in files, tracks_data in tracks.     *)
(***************************************************************************)
\* the order in which processed/ lists the artist folders
ArtistOrder == <<"X", "Y", "Z">>

\* paths.py:31-50: the first *_final.csv of every album folder that has one
get_album_csv_files(listing) ==
    LET with_csv == SelectSeq(listing, LAMBDA e : e.is_dir /\ e.finals # << >>)
    IN  [i \in 1..Len(with_csv) |-> with_csv[i].finals[1]]

\* paths.py:52-86: the artist folders that have an album, in listing order
get_all_artist_data(F) ==
    LET found == SelectSeq(ArtistOrder,
                           LAMBDA a : get_album_csv_files(F[a].entries) # << >>)
    IN  [i \in 1..Len(found) |->
            [artist |-> found[i],
             has_meta |-> F[found[i]].has_meta,
             artist_metadata |-> F[found[i]].meta,
             albums |-> get_album_csv_files(F[found[i]].entries)]]

\* parser.py:74-102, _parse_date and _parse_year: None when the cell does
\* not parse; the date and year cells of the model that are there parse
parse_date(val) == IF val \in {NaN, NULL, Absent, ""} THEN NULL ELSE val

\* parser.py:104-117, _combine_fields over the two genre cells
combine_fields(a, b) ==
    LET kept == SelectSeq(<<a, b>>, LAMBDA v : v \notin {NaN, NULL, Absent, ""})
    IN  IF kept = << >> THEN ""
        ELSE IF Len(kept) = 1 THEN kept[1]
        ELSE kept[1] \o ", " \o kept[2]

\* parser.py:5-30
etl_parse_artist_csv(row) ==
    [name |-> RowGet(row.Name),
     birth_name |-> RowGet(row.BirthName),
     birth_date |-> parse_date(row.DateOfBirth),
     birth_place |-> RowGet(row.PlaceOfBirth),
     country |-> RowGet(row.CountryOfCitizenship),
     active_years |-> parse_date(row.WorkPeriodStart),
     genres |-> combine_fields(row.GenresWikidata, row.GenresSpotify),
     instruments |-> RowGet(row.Instruments),
     vocal_type |-> RowGet(row.VoiceType)]

\* parser.py:32-71: int("") raises on an empty popularity or duration cell,
\* df.iloc[0] on a CSV without rows; TrackNumber is the column join_album
\* wrote, the position of the row
etl_parse_album_csv(csv, aid) ==
    IF \/ Len(csv) = 0
       \/ \E i \in 1..Len(csv) :
             \/ csv[i].AlbumPopularity = NaN /\ i = 1
             \/ csv[i].DurationMs = NaN
             \/ csv[i].SongPopularity = NaN
    THEN [raised |-> TRUE, album_data |-> NoAlbum, tracks_data |-> << >>]
    ELSE [raised |-> FALSE,
          album_data |-> [name |-> FillNa(csv[1].AlbumName),
                          artist_id |-> aid,
                          release_date |-> parse_date(FillNa(csv[1].ReleaseDateAlbum)),
                          popularity |-> csv[1].AlbumPopularity],
          tracks_data |-> [i \in 1..Len(csv) |->
                [name |-> FillNa(csv[i].SongName),
                 track_number |-> i,
                 duration_ms |-> csv[i].DurationMs,
                 explicit |-> csv[i].Explicit,
                 popularity |-> csv[i].SongPopularity,
                 lyrics |-> FillNa(csv[i].Lyrics)]]]

\* loader.py:15-36: the values go to the driver as they are (to_python_type
\* of loader.py has no test for NaN); no id on a conflict
etl_insert_artist(T, s, a) ==
    LET id == s.artists + 1
        s2 == [s EXCEPT !.artists = id]
    IN  IF a.name = NULL     \* name TEXT NOT NULL
        THEN [raised |-> TRUE, T |-> T, seq |-> s2, id |-> NoId]
        ELSE IF ArtistConflict(T, a)
        THEN [raised |-> FALSE, T |-> T, seq |-> s2, id |-> NoId]
        ELSE [raised |-> FALSE,
              T |-> [T EXCEPT !.artists = @ \cup {[id |-> id] @@ a}],
              seq |-> s2, id |-> id]

\* loader.py:41-54
etl_insert_album(T, s, album) ==
    LET id == s.albums + 1
        s2 == [s EXCEPT !.albums = id]
    IN  IF AlbumConflict(T, album.name, album.artist_id)
        THEN [T |-> T, seq |-> s2, id |-> NoId]
        ELSE [T |-> [T EXCEPT !.albums = @ \cup {[id |-> id] @@ album}],
              seq |-> s2, id |-> id]

\* loader.py:57-73, the statement of load.py:331-337; with album_id None the
\* rows carry a null album_id, which conflicts with nothing
etl_insert_tracks(T, s, ts, alid) ==
    IF alid # NoId THEN InsertTrackRows(T, s, ts, 1, alid)
    ELSE [T |-> [T EXCEPT !.tracks = @ \cup
                    {[id |-> s.tracks + i] @@ TrackValues(ts[i], NULL) :
                        i \in 1..Len(ts)}],
          seq |-> [s EXCEPT !.tracks = @ + Len(ts)]]

\* run_loading.py:35-50: list processed/, connect, create_tables, commit
EtlStart ==
    /\ pc \in Stopped
    /\ runs < RunLimit(fs)
    /\ runs' = runs + 1
    /\ pc' = IF get_all_artist_data(fs) = << >> THEN "done" ELSE "etl_artists"
    /\ entries' = get_all_artist_data(fs)
    /\ tx' = db
    /\ prompts' = 0
    /\ log_file' = << >>
    /\ entered' = << >>
    /\ commits' = << >>
    /\ prevRun' = NoPrev
    /\ artist' = ""
    /\ artist_id' = NoId
    /\ files' = << >>
    /\ album_data' = NoAlbum
    /\ tracks' = << >>
    /\ album_id' = NoId
    /\ track_ids' = << >>
    /\ li' = 1
    /\ UNCHANGED <<pureVars, fs, deleted, db, seq>>

\* run_loading.py:52-57 and 73-75: the next artist of all_data; an artist
\* whose insert returned no id is passed over
EtlArtist ==
    /\ pc = "etl_artists"
    /\ IF entries = << >>
       THEN /\ pc' = "done"
            /\ tx' = db
            /\ ClearLocals
            /\ UNCHANGED <<pureVars, fs, deleted, db, seq, runs, prompts, log_file,
                           histVars>>
       ELSE IF ~Head(entries).has_meta     \* pd.read_csv(None) raises
       THEN Raise(seq)
       ELSE LET r == etl_insert_artist(tx, seq,
                        etl_parse_artist_csv(Head(entries).artist_metadata))
            IN  IF r.raised
                THEN Raise(r.seq)
                ELSE /\ tx' = r.T
                     /\ seq' = r.seq
                     /\ entries' = Tail(entries)
                     /\ IF r.id = NoId
                        THEN UNCHANGED <<pc, artist, artist_id, files>>
                        ELSE /\ pc' = "etl_albums"
                             /\ artist' = Head(entries).artist
                             /\ artist_id' = r.id
                             /\ files' = Head(entries).albums
                     /\ UNCHANGED <<pureVars, fs, deleted, db, runs, prompts, album_data,
                                    tracks, album_id, track_ids, li, log_file, histVars>>

\* run_loading.py:59-64: one album of the artist: parse, insert_album
EtlAlbum ==
    /\ pc = "etl_albums"
    /\ files # << >>
    /\ LET p == etl_parse_album_csv(Head(files), artist_id)
           r == etl_insert_album(tx, seq, p.album_data)
       IN  IF p.raised
           THEN Raise(seq)
           ELSE /\ tx' = r.T
                /\ seq' = r.seq
                /\ files' = Tail(files)
                /\ album_data' = p.album_data
                /\ tracks' = p.tracks_data
                /\ album_id' = r.id
                /\ UNCHANGED <<pureVars, fs, deleted, db, pc, runs, prompts, artist,
                               artist_id, entries, track_ids, li, log_file, histVars>>

\* run_loading.py:66-67, after the loop over the albums: insert_tracks and
\* get_track_name_to_id with the tracks_data and album_id the loop left
EtlInsertTracks ==
    /\ pc = "etl_albums"
    /\ files = << >>
    /\ LET r == etl_insert_tracks(tx, seq, tracks, album_id)
       IN  /\ tx' = r.T
           /\ seq' = r.seq
           /\ track_ids' = IF album_id = NoId THEN << >>
                           ELSE get_track_name_to_id(r.T, album_id)
    /\ li' = 1
    /\ pc' = "etl_lyrics"
    /\ UNCHANGED <<pureVars, fs, deleted, db, runs, prompts, artist, artist_id, entries,
                   files, album_data, tracks, album_id, log_file, histVars>>

\* run_loading.py:68: one track of insert_lyrics (loader.py:93-111, the
\* statement of load.py:377-381)
EtlInsertLyrics ==
    /\ pc = "etl_lyrics"
    /\ li <= Len(tracks)
    /\ tx' = insert_lyrics_row(tx, tracks[li], track_ids)
    /\ li' = li + 1
    /\ UNCHANGED <<pureVars, fs, deleted, db, seq, pc, runs, prompts, artist, artist_id,
                   entries, files, album_data, tracks, album_id, track_ids, log_file,
                   histVars>>

\* run_loading.py:71: conn.commit(), once per artist
EtlCommit ==
    /\ pc = "etl_lyrics"
    /\ li > Len(tracks)
    /\ db' = tx
    /\ pc' = "etl_artists"
    /\ commits' = Append(commits, [artist_id |-> artist_id, album_id |-> album_id,
                                   name |-> album_data.name, tracks |-> tracks])
    /\ UNCHANGED <<pureVars, fs, deleted, tx, seq, runs, prompts, localVars, log_file,
                   entered, prevRun>>

NextEtl ==
    \/ EtlStart
    \/ EtlArtist
    \/ EtlAlbum
    \/ EtlInsertTracks
    \/ EtlInsertLyrics
    \/ EtlCommit
    \/ Kill
    \/ Rescrape

SpecEtl == Init /\ [][NextEtl]_vars

\* the joiner and then the loader: run_full_processing over one tree of
\* transformations/, the loader over the files of FS3 and later
TrackNoTrees ==
    { Trees(<< TxtFile(TitleSong, "la song") >>,
            << TxtFile(TitleBlankSpace, "la blank space") >>,
            TRUE, << CsvSong, OtherFile, CsvBlankSpace >>, "rw", hasYe) :
        hasYe \in BOOLEAN }

InitTrackNo ==
    /\ LoaderAt({FS3})
    /\ normState = NormIdle
    /\ matchState = MatchIdle
    /\ joinState \in {[JoinIdle EXCEPT !.pc = "input", !.trees = t] : t \in TrackNoTrees}

\* the loader is started once the joiner has written its final CSVs
NextTrackNo ==
    \/ StartProcessing
    \/ JoinNext
    \/ FinishProcessing
    \/ joinState.pc = "done" /\ StartRun
    \/ joinState.pc = "done" /\ Exit
    \/ joinState.pc = "done" /\ \E a \in ArtistNames : LoadArtist(a)
    \/ joinState.pc = "done" /\ NextEntry
    \/ joinState.pc = "done" /\ LoadAlbum
    \/ joinState.pc = "done" /\ InsertTracks
    \/ joinState.pc = "done" /\ GetTrackIds
    \/ joinState.pc = "done" /\ InsertLyrics
    \/ joinState.pc = "done" /\ Commit
    \/ joinState.pc = "done" /\ Rescrape

SpecTrackNo == InitTrackNo /\ [][NextTrackNo]_vars

(***************************************************************************)
(* The joiner of the pipeline, process.py join_album: the match of one     *)
(* track row against the *.txt files of the lyric folder.                  *)
(***************************************************************************)
ProcessCutoff == 70     \* cutoff=0.7, in hundredths

\* process.py:49: .str.lower().str.replace(r"[^a-z0-9]", "", regex=True)
CleanTitle(song_name) ==
    SelectSeq(ToLower(song_name), LAMBDA c : c \in SeqRange(Lower) \cup Digits)

\* process.py:62: f.stem.lower().replace(" ", "").replace("-", "").replace("_", "")
CleanStem(stem) ==
    SelectSeq(ToLower(stem), LAMBDA c : c \notin {" ", "-", "_"})

CleanStems(track_files) == [i \in 1..Len(track_files) |-> CleanStem(track_files[i].stem)]

\* process.py:61-64: the files of the listing whose cleaned stem has the
\* cleaned title in it, by position
DirectMatches(clean_title, track_files) ==
    {i \in 1..Len(track_files) : Contains(CleanStem(track_files[i].stem), clean_title)}

\* process.py:67-77: the position of the first file whose cleaned stem is
\* the one get_close_matches returned, 0 when it returned none
FuzzyMatch(track_files, possible_matches) ==
    IF possible_matches = << >> THEN 0
    ELSE SetMin({i \in 1..Len(track_files) :
                    CleanStem(track_files[i].stem) = possible_matches[1]})

\* process.py:61-77: the position of the matched file, 0 for None
MatchIndex(clean_title, track_files, direct) ==
    IF direct # {} THEN SetMin(direct)
    ELSE FuzzyMatch(track_files,
                    get_close_matches(clean_title, CleanStems(track_files), ProcessCutoff))

\* process.py:57-86 for one row: the Lyrics cell and the entry of `matched`
process_row(song_name, track_files, k) ==
    IF k = 0 THEN [text |-> "", log |-> << >>]
    ELSE [text |-> track_files[k].content,
          log |-> << <<song_name, track_files[k].stem>> >>]

\* a SongName and the *.txt files of its lyric folder as glob lists them;
\* join_album returns before the loop when there is none (lines 35-37)
InitProcess ==
    /\ LoaderIdle
    /\ normState = NormIdle
    /\ joinState = JoinIdle
    /\ matchState \in {[MatchIdle EXCEPT !.pc = "row", !.song_title = t,
                                          !.txt_files = l] :
                        t \in SongNames,
                        l \in FolderListings(LyricFiles, MaxFiles) \ {<< >>}}

\* one iteration of the loop of process.py:57-86
ProcessRow ==
    /\ matchState.pc = "row"
    /\ LET r == process_row(matchState.song_title, matchState.txt_files,
                    MatchIndex(CleanTitle(matchState.song_title), matchState.txt_files,
                               DirectMatches(CleanTitle(matchState.song_title),
                                             matchState.txt_files)))
       IN  matchState' = [matchState EXCEPT !.pc = "joined", !.text = r.text,
                                            !.match_log = r.log]
    /\ UNCHANGED <<loaderVars, normState, joinState>>

NextProcess == ProcessRow

SpecProcess == InitProcess /\ [][NextProcess]_vars

(***************************************************************************)
(* Properties of the loader                                                *)
(***************************************************************************)
\* every *_final.csv of artist folder a in some version of the files
FinalsOf(a) ==
    UNION { UNION { SeqRange(e.finals) : e \in SeqRange(F[a].entries) } : F \in FsConfigs }

\* the lyric texts the files give for track `song` of album `album` of the
\* artist whose folder is a
SourceTexts(a, album, song) ==
    { t.lyrics : t \in { x \in UNION { SeqRange(parse_tracks(csv)) :
                                 csv \in { c \in FinalsOf(a) :
                                           parse_album_data(c).name = album } } :
                         x.name = song } }

\* C1: idempotence of the loader.  When a run that completed is followed, on
\* the same files and with the same names typed, by another run that
\* completes, the four tables have the same row counts after the second run as
\* after the first.
C1_LoaderIdempotent ==
    (pc = "done" /\ prevRun.valid /\ prevRun.entered = entered)
        => Counts(db) = prevRun.counts

\* C2: an artist whose birth date cell is empty resolves, on every load, to
\* the one row of that name: once the loader holds the artist's id, every
\* artists row of that name carries this id.
C2_NullBirthDateUpsert ==
    (pc \in {"albums", "files", "tracks", "lookup", "lyrics"}
        /\ fs[artist].meta.DateOfBirth = NaN)
        => \A r \in tx.artists : r.name = fs[artist].meta.Name => r.id = artist_id

\* C3: track lookup is scoped to the album.  Track ids are distinct; when
\* insert_lyrics has processed a track of the album being loaded, the track row
\* of that name in that album has a lyrics row; and every lyrics row holds a
\* text the files give for that track name in the album (and artist) its track
\* row belongs to, never the text of a same-named track of another album.
C3_ScopedTrackLookup ==
    /\ \A t1, t2 \in tx.tracks : t1.id = t2.id => t1 = t2
    /\ pc = "lyrics" =>
          \A i \in 1..(li - 1) :
              \E t \in tx.tracks :
                  /\ t.name = tracks[i].name
                  /\ t.album_id = album_id
                  /\ \E L \in tx.lyrics : L.track_id = t.id
    /\ \A L \in tx.lyrics :
          \E t \in tx.tracks : \E al \in tx.albums : \E a \in tx.artists :
              /\ t.id = L.track_id
              /\ al.id = t.album_id
              /\ a.id = al.artist_id
              /\ L.text \in SourceTexts(a.name, al.name, t.name)

\* two albums of one artist, each with a track "Intro", both with lyrics
C3_Witness ==
    \E al1, al2 \in db.albums : \E t1, t2 \in db.tracks : \E L1, L2 \in db.lyrics :
        /\ al1.id # al2.id /\ al1.artist_id = al2.artist_id
        /\ t1.album_id = al1.id /\ t2.album_id = al2.id
        /\ t1.name = "Intro" /\ t2.name = "Intro"
        /\ L1.track_id = t1.id /\ L2.track_id = t2.id
        /\ L1.text # L2.text

\* C4: foreign-key integrity of the committed store: every album references
\* an artist row, every track an album row, every lyrics row a track row.
C4_ForeignKeys ==
    /\ \A al \in db.albums : \E a \in db.artists : a.id = al.artist_id
    /\ \A t \in db.tracks : \E al \in db.albums : al.id = t.album_id
    /\ \A L \in db.lyrics : \E t \in db.tracks : t.id = L.track_id

\* a run was terminated after a commit and the store was loaded again
C4_Witness ==
    /\ runs = 2
    /\ pc = "killed"
    /\ Cardinality(db.albums) >= 2
    /\ db.lyrics # {}

\* the album of commit record c is in the committed store with all its tracks
\* and their lyrics
AlbumComplete(c) ==
    \E al \in db.albums :
        /\ al.id = c.album_id /\ al.name = c.name /\ al.artist_id = c.artist_id
        /\ \A i \in 1..Len(c.tracks) :
              \E t \in db.tracks :
                  /\ t.album_id = al.id
                  /\ t.name = c.tracks[i].name
                  /\ \E L \in db.lyrics :
                        L.track_id = t.id /\ L.text = c.tracks[i].lyrics

\* every row of the committed store belongs to an album whose commit ran
OnlyCommitted ==
    /\ \A al \in db.albums : \E c \in SeqRange(commits) : c.album_id = al.id
    /\ \A t \in db.tracks :
          \E c \in SeqRange(commits) :
              c.album_id = t.album_id /\ \E x \in SeqRange(c.tracks) : x.name = t.name
    /\ \A L \in db.lyrics : \E t \in db.tracks : t.id = L.track_id

\* C5: commit per album.  In the first run on the empty store, at every point
\* (so wherever the process is terminated) the committed store holds the albums
\* whose commit ran, each with all its tracks and lyrics, and no row of an
\* album whose commit did not run.
C5_PerAlbumCommit ==
    runs = 1 => (\A c \in SeqRange(commits) : AlbumComplete(c)) /\ OnlyCommitted

\* terminated between the first album's commit and the second's
C5_Witness ==
    /\ runs = 1
    /\ pc = "killed"
    /\ Len(commits) = 1
    /\ Len(commits[1].tracks) = 2
    /\ Cardinality(db.albums) = 1
    /\ Cardinality(db.tracks) = 2
    /\ Cardinality(db.lyrics) = 2

CoreTables == {"artists", "albums", "tracks"}

\* C6: no step of the loader changes a column of an existing artist, album or
\* track row: committed rows stay as they are, and a row the connection sees
\* keeps every column for as long as its id is there.
C6_NoOverwrite ==
    [][\A tbl \in CoreTables :
          /\ \A r \in db[tbl] : r \in db'[tbl]
          /\ \A r \in tx[tbl] : \A q \in tx'[tbl] : q.id = r.id => q = r]_vars

\* an album is loaded again from a file that carries another popularity
C6_Witness ==
    /\ pc = "tracks"
    /\ \E al \in db.albums :
          /\ al.id = album_id
          /\ al.popularity # album_data.popularity

\* C9: cascade delete.  A step that removes an artist row leaves no album of
\* that artist, no track of those albums and no lyrics row of those tracks, and
\* keeps every row of the other artists.
C9_CascadeDelete ==
    [][\A a \in db.artists :
          a \notin db'.artists =>
             LET own == {al \in db.albums : al.artist_id = a.id}
                 ownTracks == {t \in db.tracks : \E al \in own : t.album_id = al.id}
             IN  /\ \A al \in db'.albums : al.artist_id # a.id
                 /\ \A t \in db'.tracks : \A al \in own : t.album_id # al.id
                 /\ \A L \in db'.lyrics : \A t \in ownTracks : L.track_id # t.id
                 /\ \A b \in db.artists : b # a => b \in db'.artists
                 /\ \A al \in db.albums : al \notin own => al \in db'.albums
                 /\ \A t \in db.tracks : t \notin ownTracks => t \in db'.tracks
                 /\ \A L \in db.lyrics :
                       (\A t \in ownTracks : L.track_id # t.id) => L \in db'.lyrics]_vars

\* an artist with albums, tracks and lyrics was deleted while the store held
\* another artist's album, track and lyrics
C9_Witness ==
    /\ deleted.artists # {} /\ deleted.albums # {}
    /\ deleted.tracks # {} /\ deleted.lyrics # {}
    /\ db.artists # {} /\ db.albums # {} /\ db.tracks # {} /\ db.lyrics # {}

(***************************************************************************)
(* Properties of the normalizer                                            *)
(***************************************************************************)
\* C8: a title followed by a feature tag and/or noise markers in parentheses
\* or brackets has the normalized key of the bare title.
C8_NoiseStripped ==
    (/\ normState.pc = "done"
     /\ normState.first \in NoiseSuffixes
     /\ normState.second \in NoiseSuffixes \cup {<< >>})
        => normState.key = normState.bare

\* C7: whenever the normalized song title is a key of the lyrics map,
\* match_lyrics returns the text stored under that key and logs the tier
\* "exact", whatever else the map holds (prefix-matching or fuzzy-matching
\* keys included).
C7_ExactTierWins ==
    LET simplified == normalize_for_match(matchState.song_title)
        hits == {i \in 1..Len(matchState.lyrics_map) :
                    matchState.lyrics_map[i].key = simplified}
    IN  (matchState.pc = "done" /\ hits # {})
            => /\ \A i \in hits : matchState.text = matchState.lyrics_map[i].text
               /\ matchState.match_log =
                      << MatchLine(matchState.song_title, simplified, "exact") >>

\* C7 witness: the exact key is in the map behind another key that the prefix
\* tier and the fuzzy tier would both accept, and the exact text came back.
C7_Witness ==
    LET simplified == normalize_for_match(matchState.song_title)
        m == matchState.lyrics_map
    IN  /\ matchState.pc = "done"
        /\ Len(m) >= 2
        /\ m[1].key # simplified
        /\ StartsWith(m[1].key, simplified)
        /\ RatioAtLeast(Ratio(m[1].key, simplified), LyricsCutoff)
        /\ \E i \in 2..Len(m) : m[i].key = simplified /\ matchState.text = m[i].text
        /\ matchState.text # m[1].text

(***************************************************************************)
(* Properties of the joiner                                                *)
(***************************************************************************)
\* no album folder under transformations/SPOTIFY/<artist> holds a
\* transformed CSV (or there is no such artist folder)
NoTransformedCsv(trees, artist_name) ==
    \A i \in 1..Len(trees.spotify) :
        (trees.spotify[i].is_dir /\ trees.spotify[i].name = artist_name)
            => \A k \in 1..Len(trees.spotify[i].entries) :
                  trees.spotify[i].entries[k].is_dir
                      => trees.spotify[i].entries[k].csvs = << >>

\* transformations/GENIUS has no folder of that artist name
NoLyricFolder(trees, artist_name) ==
    \A i \in 1..Len(trees.genius) :
        ~(trees.genius[i].is_dir /\ trees.genius[i].name = artist_name)

\* the lyric folder of that album holds no lyric file
NoLyricFiles(trees, artist_name, album) ==
    \E i \in 1..Len(trees.genius) :
        /\ trees.genius[i].is_dir
        /\ trees.genius[i].name = artist_name
        /\ \E k \in 1..Len(trees.genius[i].entries) :
              /\ trees.genius[i].entries[k].is_dir
              /\ trees.genius[i].entries[k].name = album
              /\ trees.genius[i].entries[k].txt_files = << >>

MissingPrecondition(trees, artist_name, album) ==
    \/ NoTransformedCsv(trees, artist_name)
    \/ NoLyricFolder(trees, artist_name)
    \/ NoLyricFiles(trees, artist_name, album)

JoinErrors == {ErrNoDirectory, ErrNoFolder, ErrNoAlbumFolder, ErrNoLyrics}

\* C10: when join_album meets a missing precondition for one album (no
\* transformed CSV, no lyric folder, no lyric file), no final CSV is written
\* for that album, exactly one entry "<artist> - <album>: <error>" is added to
\* the failure list, and the loop goes on: join_album is called for every
\* album folder before the run ends.
C10_FailureIsolated ==
    /\ [][ (/\ joinState.pc = "running"
            /\ joinState.todo # << >>
            /\ MissingPrecondition(joinState.trees,
                                   normalize_unicode(Head(joinState.todo)[1]),
                                   normalize_unicode(Head(joinState.todo)[2])))
           => LET a == normalize_unicode(Head(joinState.todo)[1])
                  b == normalize_unicode(Head(joinState.todo)[2])
              IN  /\ joinState'.out.processed = joinState.out.processed
                  /\ ~\E f \in joinState'.out.processed : f.artist = a /\ f.album = b
                  /\ \E err \in JoinErrors :
                        joinState'.out.logs =
                            Append(joinState.out.logs, FailureLine(a, b, err))
                  /\ joinState'.out.successes = joinState.out.successes
                  /\ joinState'.pc = "running"
                  /\ joinState'.todo = Tail(joinState.todo) ]_vars
    /\ [](joinState.pc = "done"
            => joinState.called = AlbumCalls(joinState.trees.genius, 1))

\* C10 witness: a run that ended with the first album failed for want of
\* lyric files, a later album of the same artist joined, and the last
\* artist failed for want of a lyric folder.
C10_Witness ==
    /\ joinState.pc = "done"
    /\ Len(joinState.called) = 3
    /\ joinState.out.logs =
          << FailureLine(ArtistX, TitleSong, ErrNoLyrics),
             FailureLine(normalize_unicode(ArtistYe), TitleZebra, ErrNoDirectory) >>
    /\ joinState.out.successes = << SuccessLine(ArtistX, TitleBlankSpace) >>
    /\ \A f \in joinState.out.processed : f.album = TitleBlankSpace
    /\ NoLyricFolder(joinState.trees, normalize_unicode(ArtistYe))
    /\ ~NoTransformedCsv(joinState.trees, normalize_unicode(ArtistYe))

(***************************************************************************)
(* Properties of the loader's album loop                                   *)
(***************************************************************************)
\* C11: when parsing or inserting one album raises (an empty final CSV, a
\* value the database rejects), only that album is aborted: the loader
\* stays in the loop of the same artist with the remaining entries of the
\* artist folder still to load, and the run does not end with the exception.
C11_ExceptionBoundary ==
    [][ (pc \in {"files", "tracks"} /\ pc' # "killed")
            => /\ pc' # "raised"
               /\ artist' = artist
               /\ entries' = entries ]_vars

(***************************************************************************)
(* Properties of the match logs                                            *)
(***************************************************************************)
\* no tier of match_lyrics (exact, prefix, fuzzy) finds a key for the title
NoTierMatches(song_title, lyrics_map) ==
    /\ ~MapHas(lyrics_map, normalize_for_match(song_title))
    /\ PrefixKeys(lyrics_map, Head10(normalize_for_match(song_title))) = {}
    /\ get_close_matches(normalize_for_match(song_title), MapKeys(lyrics_map),
                         LyricsCutoff) = << >>

\* the lines of the log file of that kind written for the album, << >> when
\* no such file was written
LogLines(out, kind, artist_n, album) ==
    LET at == {i \in 1..Len(out.log_files) :
                  /\ out.log_files[i].kind = kind
                  /\ out.log_files[i].artist = artist_n
                  /\ out.log_files[i].album = album}
    IN  IF at = {} THEN << >> ELSE out.log_files[SetMin(at)].lines

\* the SongName column of the rows no tier matches, in row order
UnmatchedSongs(rows, lyrics_map) ==
    LET miss == SelectSeq(rows, LAMBDA r : NoTierMatches(r.SongName, lyrics_map))
    IN  [i \in 1..Len(miss) |-> miss[i].SongName]

MissRecorded(f, lyrics_map, missing) ==
    /\ missing = UnmatchedSongs(f.rows, lyrics_map)
    /\ \A i \in 1..Len(f.rows) :
          (f.rows[i].Lyrics = "") <=> NoTierMatches(f.rows[i].SongName, lyrics_map)

\* C12: for every album joined, the missing-lyrics log holds exactly the
\* song titles for which no tier of match_lyrics found a key, and exactly
\* those rows have an empty Lyrics field; a song matched at some tier is
\* not reported as missing.
C12_MissRecorded ==
    \A f \in joinState.out.processed :
        MissRecorded(f,
            load_combined_lyrics_map(joinState.trees.genius, f.artist, f.album).lyrics_map,
            LogLines(joinState.out, "missing_lyrics", f.artist, f.album))

\* the entry the audit log is to hold for a title: the first tier that finds
\* a key names it, a title no tier matches gets the line without a tier
AuditLine(song_title, simplified, lyrics_map) ==
    IF MapHas(lyrics_map, simplified)
    THEN MatchLine(song_title, simplified, "exact")
    ELSE IF PrefixKeys(lyrics_map, Head10(simplified)) # {}
    THEN MatchLine(song_title,
                   lyrics_map[SetMin(PrefixKeys(lyrics_map, Head10(simplified)))].key,
                   "prefix")
    ELSE IF get_close_matches(simplified, MapKeys(lyrics_map), LyricsCutoff) # << >>
    THEN MatchLine(song_title,
                   get_close_matches(simplified, MapKeys(lyrics_map), LyricsCutoff)[1],
                   "fuzzy")
    ELSE NoMatchLine(song_title)

\* an entry "<title> --> <key or No match> (<tier>)"
HasTierForm(line, song_title) ==
    /\ Len(line) = 6
    /\ line[1] = song_title
    /\ line[2] = " --> "
    /\ line[4] = " ("
    /\ line[5] \in {"exact", "prefix", "fuzzy"}
    /\ line[6] = ")"

AuditEntries(f, lyrics_map, match_log) ==
    /\ Len(match_log) = Len(f.rows)
    /\ \A i \in 1..Len(f.rows) :
          match_log[i] = AuditLine(f.rows[i].SongName,
                                   normalize_for_match(f.rows[i].SongName), lyrics_map)

AuditTierForm(f, match_log) ==
    /\ Len(match_log) = Len(f.rows)
    /\ \A i \in 1..Len(f.rows) : HasTierForm(match_log[i], f.rows[i].SongName)

ArtistKey(a) ==
    [name |-> to_python_type(parse_artist_csv(fs[a].meta).name),
     birth_date |-> to_python_type(parse_artist_csv(fs[a].meta).birth_date)]

\* C14: when insert_artist or insert_album meets a uniqueness conflict, the
\* id the loader goes on with is the id of the existing row with the same
\* uniqueness key as the attempted insert: (name, birth date) for an artist,
\* (name, artist id) for an album, also when the store holds another artist
\* of the same name with a different birth date.
C14_FallbackSameKey ==
    [][ /\ (/\ pc = "prompt" /\ pc' = "albums"
            /\ ArtistConflict(tx, ArtistKey(artist')))
           => \E r \in tx'.artists :
                 /\ r.id = artist_id'
                 /\ r.name = ArtistKey(artist').name
                 /\ r.birth_date = ArtistKey(artist').birth_date
        /\ (/\ pc = "files" /\ pc' = "tracks"
            /\ AlbumConflict(tx, to_python_type(album_data'.name), artist_id))
           => \E r \in tx'.albums :
                 /\ r.id = album_id'
                 /\ r.name = to_python_type(album_data'.name)
                 /\ r.artist_id = artist_id ]_vars

(***************************************************************************)
(* Properties of the lyrics table                                          *)
(***************************************************************************)
AnalysisColumns ==
    {"readability_score", "sentiment_score", "word_count", "line_count",
     "char_count", "lexical_density"}

OneRowPerTrack(T) ==
    \A r, q \in T.lyrics : r.track_id = q.track_id => r = q

\* C15: the lyrics table holds at most one row per track id; a load that
\* meets an existing lyrics row leaves its text and its analysis columns as
\* they are; every row the loader creates has its analysis columns null.
C15_LyricsInsertOrIgnore ==
    /\ [](OneRowPerTrack(tx) /\ OneRowPerTrack(db))
    /\ [][ /\ \A r \in db.lyrics : r \in db'.lyrics
           /\ \A r \in tx.lyrics : \A q \in tx'.lyrics :
                 q.track_id = r.track_id => q = r
           /\ \A q \in tx'.lyrics \ tx.lyrics :
                 \A c \in AnalysisColumns : q[c] = NULL ]_vars

\* C15 witness: a second run has gone through insert_lyrics for an album
\* whose file now carries another text than the lyrics row of its track
C15_Witness ==
    /\ runs = 2
    /\ pc = "lyrics"
    /\ li > Len(tracks)
    /\ \E i \in 1..Len(tracks) :
          /\ DictGet(track_ids, tracks[i].name) # NoId
          /\ \E r \in tx.lyrics :
                /\ r.track_id = DictGet(track_ids, tracks[i].name)
                /\ r \in db.lyrics
                /\ r.text # to_python_type(tracks[i].lyrics)

(***************************************************************************)
(* Properties of the values handed to the database driver                  *)
(***************************************************************************)
\* the artist fields read from one cell each, with the column of the cell
ArtistColumns ==
    [name |-> "Name", birth_name |-> "BirthName", birth_date |-> "DateOfBirth",
     birth_place |-> "PlaceOfBirth", country |-> "CountryOfCitizenship",
     active_years |-> "WorkPeriodStart", instruments |-> "Instruments",
     vocal_type |-> "VoiceType", popularity |-> "Popularity",
     followers |-> "Followers", image_url |-> "ImageURL"]

AlbumColumns ==
    [name |-> "AlbumName", release_date |-> "ReleaseDateAlbum",
     popularity |-> "AlbumPopularity", image_url |-> "ImageURL"]

TrackColumns ==
    [name |-> "SongName", duration_ms |-> "DurationMs", explicit |-> "Explicit",
     popularity |-> "SongPopularity", lyrics |-> "Lyrics"]

\* the genres parameter when missing genre cells are left out
GenresOfPresent(wikidata, spotify) ==
    IF wikidata = NaN /\ spotify = NaN THEN NULL
    ELSE IF wikidata = NaN THEN spotify
    ELSE IF spotify = NaN THEN wikidata
    ELSE JoinGenres(wikidata, spotify)

\* every missing cell of the artist row is null in the parameters of
\* insert_artist
ArtistCoerced(row, artist_data) ==
    /\ \A k \in DOMAIN ArtistColumns :
          row[ArtistColumns[k]] = NaN => to_python_type(artist_data[k]) = NULL
    /\ to_python_type(artist_data.genres) =
          GenresOfPresent(row.GenresWikidata, row.GenresSpotify)

\* every missing cell of the final CSV is null in the parameters of
\* insert_album, insert_tracks and insert_lyrics
AlbumCoerced(csv, data, ts) ==
    /\ \A k \in DOMAIN AlbumColumns :
          csv[1][AlbumColumns[k]] = NaN => to_python_type(data[k]) = NULL
    /\ \A i \in 1..Len(csv) : \A k \in DOMAIN TrackColumns :
          csv[i][TrackColumns[k]] = NaN => to_python_type(ts[i][k]) = NULL

\* C16: every value that is missing (NaN) in the artist metadata CSV or in a
\* final album CSV reaches the database driver as null, for every artist,
\* album and track field: never as an empty string or as the text "nan".
C16_NullCoercion ==
    [][ /\ (pc = "prompt" /\ pc' = "albums")
            => ArtistCoerced(fs[artist'].meta, parse_artist_csv(fs[artist'].meta))
        /\ (pc = "files" /\ files # << >> /\ Len(Head(files)) > 0)
            => AlbumCoerced(Head(files), parse_album_data(Head(files)),
                            parse_tracks(Head(files))) ]_vars

(***************************************************************************)
(* Properties of the artist metadata copy                                  *)
(***************************************************************************)
\* the copies of the merged metadata file of artist_n made so far
CopiesOf(out, artist_n) ==
    {i \in 1..Len(out.copies) : out.copies[i] = artist_n}

\* C17: over a processing run, the merged metadata file of an artist with a
\* joined album is copied to the processed artist folder exactly once; a
\* later album of the artist, joined when the destination exists, makes no
\* further copy.
C17_MetadataCopiedOnce ==
    \A f \in joinState.out.processed :
        DirNamed(joinState.trees.spotify, f.artist).metadata # "none"
            => Cardinality(CopiesOf(joinState.out, f.artist)) = 1

(***************************************************************************)
(* Properties of the exclusion policy                                      *)
(***************************************************************************)
\* an album folder that the policy filters out
FilteredOut(e) == e.is_dir /\ ~is_valid_album_name(e.name)

\* C18: an entry of processed/<artist> is loaded if and only if it is a
\* directory whose name contains no excluded keyword ("deluxe", "live", in
\* any case), and the skipped_albums log receives one line
\* "<artist>/<album folder>" for each album folder the policy filters out
\* and for nothing else.
C18_ExclusionPolicy ==
    [][ (pc = "albums" /\ entries # << >> /\ pc' # "killed")
            => /\ (pc' = "files")
                    <=> (Head(entries).is_dir /\ is_valid_album_name(Head(entries).name))
               /\ log_file' = IF FilteredOut(Head(entries))
                              THEN Append(log_file, <<artist, Head(entries).name>>)
                              ELSE log_file ]_vars

(***************************************************************************)
(* Properties of version qualifiers                                        *)
(***************************************************************************)
\* the groups that hold the word "version" and are no noise marker
VersionSuffixes == {SufTaylors, SufLive}

\* the words of such a group as a key spells them
VersionWords(group) ==
    IF group = SufLive
    THEN <<"l","i","v","e"," ","v","e","r","s","i","o","n">>
    ELSE <<"t","a","y","l","o","r","s"," ","v","e","r","s","i","o","n">>

VersionKept(key, group, without) ==
    /\ Contains(key, VersionWords(group))
    /\ key # normalize_for_match(without)

\* C19: for a title that holds a parenthesised group with the word
\* "version" (other than "slow version"), the words of the group appear in
\* the normalized key and the key differs from the key of the title without
\* the group, whether the group stands before or after another suffix, a
\* "(feat. X)" tag included.
C19_VersionPreserved ==
    normState.pc = "done"
        => /\ normState.second \in VersionSuffixes
                => VersionKept(normState.key, normState.second,
                               normState.base \o normState.first)
           /\ normState.first \in VersionSuffixes
                => VersionKept(normState.key, normState.first,
                               normState.base \o normState.second)

(***************************************************************************)
(* Properties of the lyrics map                                            *)
(***************************************************************************)
\* the files of the listing whose stem normalizes to the key, by position
FilesOfKey(txt_files, key) ==
    {i \in 1..Len(txt_files) : normalize_for_match(txt_files[i].stem) = key}

\* C20: when lyric files of the folder normalize to the same key, the map
\* holds under that key the text of the first of them in reading order and
\* of no later one, and the map has exactly one entry per distinct
\* normalized key.
C20_FirstFileKept ==
    matchState.pc \in {"loaded", "done"}
        => LET m == matchState.lyrics_map
               fl == matchState.txt_files
           IN  /\ \A i, j \in 1..Len(m) : m[i].key = m[j].key => i = j
               /\ {m[i].key : i \in 1..Len(m)}
                     = {normalize_for_match(fl[k].stem) : k \in 1..Len(fl)}
               /\ \A i \in 1..Len(m) :
                     m[i].text = StripText(fl[SetMin(FilesOfKey(fl, m[i].key))].content)

\* C20 witness: two files of the folder collide on a key, their texts
\* differ, and the map was built
C20_Witness ==
    /\ matchState.pc = "loaded"
    /\ \E i, j \in 1..Len(matchState.txt_files) :
          /\ i < j
          /\ normalize_for_match(matchState.txt_files[i].stem)
                = normalize_for_match(matchState.txt_files[j].stem)
          /\ StripText(matchState.txt_files[i].content)
                # StripText(matchState.txt_files[j].content)
          /\ MapGet(matchState.lyrics_map,
                    normalize_for_match(matchState.txt_files[i].stem))
                = StripText(matchState.txt_files[i].content)

(***************************************************************************)
(* Properties of run_etl                                                   *)
(***************************************************************************)
\* the store holds the album of that final CSV under an artist of that name,
\* with a track and a lyrics row for every row of the CSV
AlbumLoaded(T, artist_name, csv) ==
    \E ar \in T.artists : \E al \in T.albums :
        /\ ar.name = artist_name
        /\ al.artist_id = ar.id
        /\ al.name = FillNa(csv[1].AlbumName)
        /\ \A i \in 1..Len(csv) : \E t \in T.tracks :
              /\ t.album_id = al.id
              /\ t.name = FillNa(csv[i].SongName)
              /\ \E L \in T.lyrics : L.track_id = t.id

AllAlbumsLoaded(T, all_data) ==
    \A i \in 1..Len(all_data) : \A k \in 1..Len(all_data[i].albums) :
        AlbumLoaded(T, all_data[i].artist, all_data[i].albums[k])

\* C21: when run_etl has ended, every album of every artist found under
\* processed/ has been upserted with its own tracks and their lyrics and
\* committed, on a first run and on a re-run over artists that the store
\* already holds.
C21_EtlPerAlbum ==
    pc = "done" => AllAlbumsLoaded(db, get_all_artist_data(fs))

(***************************************************************************)
(* Properties of the prefix and fuzzy tiers                                *)
(***************************************************************************)
\* the first 10 characters of the title (the whole title when shorter) are
\* a prefix of the key
PrefixHit(key, simplified) ==
    LET n == IF Len(simplified) < 10 THEN Len(simplified) ELSE 10
    IN  /\ Len(key) >= n
        /\ \A i \in 1..n : key[i] = simplified[i]

PrefixHits(m, simplified) == {i \in 1..Len(m) : PrefixHit(m[i].key, simplified)}

PrefixOutcome(title, simplified, m, hits, text, log) ==
    LET exact == \E i \in 1..Len(m) : m[i].key = simplified
    IN  /\ (~exact /\ hits # {})
            => /\ log = << MatchLine(title, m[SetMin(hits)].key, "prefix") >>
               /\ text = m[SetMin(hits)].text
        /\ (Len(log) = 1 /\ Len(log[1]) = 6 /\ log[1][5] = "prefix")
            => (~exact /\ hits # {})

\* C22: the prefix tier answers exactly when no key equals the normalized
\* title and some key starts with the first 10 characters of the title (the
\* whole title when shorter); it answers before the fuzzy tier, and with
\* the first such key in map insertion order.
C22_PrefixTier ==
    matchState.pc = "done"
        => PrefixOutcome(matchState.song_title,
                         normalize_for_match(matchState.song_title),
                         matchState.lyrics_map,
                         PrefixHits(matchState.lyrics_map,
                                    normalize_for_match(matchState.song_title)),
                         matchState.text, matchState.match_log)

\* C22 witness: no exact key, a title longer than 10 characters, two keys
\* that start with its first 10 characters, the first of them returned
C22_Witness ==
    /\ matchState.pc = "done"
    /\ Len(normalize_for_match(matchState.song_title)) > 10
    /\ ~MapHas(matchState.lyrics_map, normalize_for_match(matchState.song_title))
    /\ Cardinality(PrefixHits(matchState.lyrics_map,
                              normalize_for_match(matchState.song_title))) >= 2
    /\ matchState.text # ""
    /\ matchState.match_log[1][5] = "prefix"

\* the keys of the map whose similarity ratio to the title reaches the cutoff
AboveCutoff(m, simplified) ==
    {i \in 1..Len(m) : RatioAtLeast(Ratio(m[i].key, simplified), LyricsCutoff)}

\* no key of the map has a higher ratio to the title than key i
HighestRatio(m, simplified, i) ==
    \A j \in 1..Len(m) :
        Ratio(m[j].key, simplified)[1] * Ratio(m[i].key, simplified)[2]
            <= Ratio(m[i].key, simplified)[1] * Ratio(m[j].key, simplified)[2]

FuzzyOutcome(title, simplified, m, above, text, log) ==
    (/\ \A i \in 1..Len(m) : m[i].key # simplified
     /\ PrefixHits(m, simplified) = {})
        => IF above = {}
           THEN text = "" /\ log = << NoMatchLine(title) >>
           ELSE \E i \in above :
                   /\ HighestRatio(m, simplified, i)
                   /\ log = << MatchLine(title, m[i].key, "fuzzy") >>
                   /\ text = m[i].text

\* C23: when the exact and the prefix tier both fail, match_lyrics returns
\* the text of one key with the highest similarity ratio to the normalized
\* title if that ratio is at or above 0.6, and the empty string, with the
\* no-match entry, when every key scores below 0.6.
C23_FuzzyTier ==
    matchState.pc = "done"
        => FuzzyOutcome(matchState.song_title,
                        normalize_for_match(matchState.song_title),
                        matchState.lyrics_map,
                        AboveCutoff(matchState.lyrics_map,
                                    normalize_for_match(matchState.song_title)),
                        matchState.text, matchState.match_log)

\* C23 witness: the fuzzy tier answered with the best of two keys above the
\* cutoff whose ratios differ, a key below the cutoff being in the map too
C23_Witness ==
    /\ matchState.pc = "done"
    /\ Len(matchState.match_log) = 1
    /\ Len(matchState.match_log[1]) = 6
    /\ matchState.match_log[1][5] = "fuzzy"
    /\ LET m == matchState.lyrics_map
           simplified == normalize_for_match(matchState.song_title)
       IN  /\ \E i, j \in AboveCutoff(m, simplified) : ~HighestRatio(m, simplified, j)
           /\ \E k \in 1..Len(m) : k \notin AboveCutoff(m, simplified)

(***************************************************************************)
(* Properties of the track numbers                                         *)
(***************************************************************************)
\* the final CSV has the rows of the transformed CSV in file order, row i
\* with TrackNumber i
NumberedInFileOrder(f, rows) ==
    /\ Len(f.rows) = Len(rows)
    /\ \A i \in 1..Len(rows) :
          /\ f.rows[i].TrackNumber = i
          /\ f.rows[i].SongName = rows[i].SongName

\* the rows of the final CSV that carry the name, by position
RowsNamed(ts, name) == {i \in 1..Len(ts) : to_python_type(ts[i].name) = name}

\* C24: join_album writes TrackNumber i for the i-th row of the transformed
\* track table, and for an album loaded into an empty store every track name
\* of the final CSV is persisted once, with the 1-based position of the
\* first row that carries the name as its track_number.
C24_TrackNumbers ==
    /\ [][ \A f \in joinState.out.processed' \ joinState.out.processed :
               NumberedInFileOrder(f,
                   find_album_dir_by_csv(joinState.trees.spotify, f.artist,
                                         f.album).folder.csvs[1].rows) ]_vars
    /\ [][ (pc = "lyrics" /\ pc' = "files" /\ db.tracks = {})
              => /\ \A i \in 1..Len(tracks) : \E t \in db'.tracks :
                       t.name = to_python_type(tracks[i].name)
                 /\ \A t \in db'.tracks :
                       /\ RowsNamed(tracks, t.name) # {}
                       /\ t.track_number = SetMin(RowsNamed(tracks, t.name))
                       /\ \A u \in db'.tracks : u.name = t.name => u = t ]_vars

\* C24 witness: a final CSV of three rows was written, and an album whose
\* final CSV carries one track name in its first and in its third row was
\* committed to a store that held no track before
C24_Witness ==
    /\ \E f \in joinState.out.processed : Len(f.rows) = 3
    /\ pc = "files"
    /\ Len(commits) = 1
    /\ Len(commits[1].tracks) = 3
    /\ commits[1].tracks[1].name = commits[1].tracks[3].name
    /\ Cardinality(db.tracks) = 2
    /\ \E t \in db.tracks : t.track_number = 1 /\ t.name = commits[1].tracks[3].name

(***************************************************************************)
(* Properties of titles that normalize to the empty string                 *)
(***************************************************************************)
\* C25: a song title that normalizes to the empty string, matched against
\* a non-empty lyrics map, gets no match: match_lyrics returns the empty
\* text, never the text of a lyric file.
C25_EmptyTitleMiss ==
    (/\ matchState.pc = "done"
     /\ normalize_for_match(matchState.song_title) = << >>
     /\ matchState.lyrics_map # << >>)
        => matchState.text = ""

(***************************************************************************)
(* Properties of the lyric files attached within one album                 *)
(***************************************************************************)
\* the match log of a joined album attaches no key to two entries of
\* different titles
KeysAttachedOnce(match_log) ==
    \A i, j \in 1..Len(match_log) :
        (/\ Len(match_log[i]) = 6
         /\ Len(match_log[j]) = 6
         /\ match_log[i][1] # match_log[j][1])
            => match_log[i][3] # match_log[j][3]

\* C26: within one join_album run each lyric file (map key) is attached to
\* at most one track row: two rows of different SongName never receive the
\* text of the same lyric file.
C26_OneFilePerTrack ==
    \A f \in joinState.out.processed :
        KeysAttachedOnce(LogLines(joinState.out, "matched_lyrics", f.artist, f.album))

(***************************************************************************)
(* Properties of the track numbers across loader runs                      *)
(***************************************************************************)
\* C27: after any sequence of loader runs, also a re-run on a final CSV
\* whose rows were reordered or extended since the previous load, no two
\* persisted tracks of one album have the same track_number.
C27_TrackNumbersDistinct ==
    \A t, u \in db.tracks :
        (t.album_id = u.album_id /\ t.track_number = u.track_number) => t = u

(***************************************************************************)
(* Properties of the artists at a normal exit                              *)
(***************************************************************************)
\* C28: when the loader exits normally, every artist whose metadata was
\* parsed and inserted during the session is in the committed store, also
\* when none of the album folders of the artist was loaded.
C28_ArtistsDurable ==
    pc = "done"
        => \A i \in 1..Len(entered) :
              fs[entered[i]].has_meta
                  => \E r \in db.artists :
                        r.name = to_python_type(parse_artist_csv(fs[entered[i]].meta).name)

(***************************************************************************)
(* Properties of the two outcome lists of run_full_processing              *)
(***************************************************************************)
InSuccesses(out, artist_n, album) ==
    \E i \in 1..Len(out.successes) : out.successes[i] = SuccessLine(artist_n, album)

InFailures(out, artist_n, album) ==
    \E i \in 1..Len(out.logs) :
        out.logs[i][1] = artist_n /\ out.logs[i][3] = album

\* C29: after run_full_processing every (artist, album) that join_album was
\* called on is in exactly one of the two lists, successes or the failure
\* log: never in both, never in neither, also when the copy of the artist
\* metadata raises after the final CSV was written.
C29_OutcomeExclusive ==
    joinState.pc = "done"
        => \A k \in 1..Len(joinState.called) :
              LET artist_n == normalize_unicode(joinState.called[k][1])
                  album == normalize_unicode(joinState.called[k][2])
              IN  InSuccesses(joinState.out, artist_n, album)
                      <=> ~InFailures(joinState.out, artist_n, album)

(***************************************************************************)
(* Properties of the joiner of the pipeline (process.py)                   *)
(***************************************************************************)
\* the files of the listing whose cleaned stem is the cleaned title
ExactFiles(clean_title, track_files) ==
    {i \in 1..Len(track_files) : CleanStem(track_files[i].stem) = clean_title}

\* C30: in join_album of process.py, when the cleaned title of a track
\* equals the cleaned stem of one lyric file, the text of that file is
\* attached to the track, whichever other files the folder lists and in
\* whichever order; a file whose cleaned stem merely contains the cleaned
\* title is never chosen instead.
C30_ExactWins ==
    matchState.pc = "joined"
        => \A i \in ExactFiles(CleanTitle(matchState.song_title), matchState.txt_files) :
              /\ matchState.match_log =
                     << <<matchState.song_title, matchState.txt_files[i].stem>> >>
              /\ matchState.text = matchState.txt_files[i].content
====
